---------------------------- MODULE Spec2Model ----------------------------
(***************************************************************************)
(* A model of POV, a tracing library for Python.                           *)
(*                                                                         *)
(* The repository holds two generations of the library:                    *)
(*   src/pov.py        the single-file version (POVDict and POVList, the   *)
(*                     mapping and sequence proxies, live here);           *)
(*   src/pov/_impl.py  the package version (one generic proxy, _POVObj).   *)
(* The trace buffer (POV.Printer) is the same in both.  Where the two      *)
(* differ the model says which file a definition is modelled from.         *)
(***************************************************************************)
EXTENDS Integers, Sequences, FiniteSets, TLC

VARIABLES
    blocks,          \* the live POV.Printer instances that were entered, by id
    cur,             \* POV.Printer._parent: the innermost open block, or None
    previous_stack,  \* POV.Printer._previous_stack
    out,             \* what was written to _global_file, in order
    nextId,          \* the number of blocks opened so far, plus one
    clock,           \* the number of lines appended so far (history)
    povlist,         \* the contents of a POVList
    natlist,         \* a native list given the same operations
    listres,         \* the last list operation: what each of the two returned
    povdict,         \* the contents of a POVDict, in insertion order
    natdict,         \* a native dict given the same operations
    dictres,         \* the last dict operation: what each of the two returned
    frames,          \* the call stack of the program, innermost frame last
    mem,             \* the dict that is the default argument of binom
    ret,             \* the outcome of the frame that ended last
    calls,           \* one record per invocation of a tracked function (history)
    nexc,            \* the number of exception instances created
    impl,            \* the version of the library the program imported
    attr_dict,       \* _pov_attr_dict of class A: target -> set of attributes
    hook_obj,        \* obj in the closure of the __setattr__ hook of class A
    store,           \* the attributes of the instances of A
    attrres,         \* the last operation on attributes and what it traced
    fun_dict,        \* _pov_fun_dict of class A: method name -> traced replacement
    fun_obj,         \* obj in the closure of the __getattribute__ hook of class A
    heap,            \* the contents of the mutable objects of the client
    global_id_range, \* _global_id_range: the id ranges whose operations write
    front,           \* the last call of a front-end operation and its outcome
    nops             \* the number of operations the client has made

printerVars == <<blocks, cur, previous_stack, out, nextId, clock>>
listVars == <<povlist, natlist, listres>>
dictVars == <<povdict, natdict, dictres>>
envVars == <<heap, global_id_range>>
frontVars == <<fun_dict, fun_obj, envVars, front>>
proxyVars == <<listVars, dictVars, frontVars>>
trackVars == <<frames, mem, ret, calls, nexc>>
attrVars == <<impl, attr_dict, hook_obj, store, attrres>>

vars == <<printerVars, listVars, dictVars, trackVars, attrVars, frontVars, nops>>

None == 0

(***************************************************************************)
(* Bounds of the model.                                                    *)
(***************************************************************************)
MaxBlocks == 4       \* blocks opened in one behaviour of the buffer
MaxLines == 4        \* lines appended in one behaviour of the buffer
MaxListOps == 2      \* operations on the list in one behaviour
MaxDictOps == 2      \* operations on the dict in one behaviour
MaxCalls == 2        \* calls of tracked functions the client makes
MaxAttrOps == 3      \* registrations and assignments the client makes
MaxProxyOps == 4     \* operations on a tracked container in one behaviour
MaxSiteBlocks == 3   \* blocks opened from the varied call sites
MaxSiteLines == 2    \* lines appended to them
MaxMemOps == 3       \* registrations and lookups of methods
MaxMemberCalls == 3  \* calls of members of the tracked class

(***************************************************************************)
(* Sequence helpers.                                                       *)
(***************************************************************************)
Reverse(s) == [i \in 1..Len(s) |-> s[Len(s) + 1 - i]]

Min(a, b) == IF a <= b THEN a ELSE b

RECURSIVE Concat(_)
Concat(ss) == IF ss = <<>> THEN <<>> ELSE Head(ss) \o Concat(Tail(ss))

(***************************************************************************)
(* POV.Printer: the trace buffer.                                          *)
(*                                                                         *)
(* A block is a Printer that was entered.  A queued line is the triple     *)
(* (printer, args, kwargs) of Printer.append: cat is the style of the      *)
(* printer, text the physical lines its arguments render to.  The fields   *)
(* blk (the id of the block, ids are given in opening order), up (the id   *)
(* of the parent block) and seq (the value of the append clock) are        *)
(* history: the code has no such fields, they only let the properties      *)
(* speak about opening and appending order.  So is the field stack of a    *)
(* written record: the stack the block of the record captured.             *)
(***************************************************************************)
Line(cat, text, seq) == [cat |-> cat, text |-> text, seq |-> seq]

\* Printer.__enter__: the new block's fields.
EnterFields(id, style, stk, parent, bs) ==
    [ style       |-> style,
      parent      |-> parent,
      bars        |-> IF parent = None THEN <<style>>
                      ELSE Append(bs[parent].bars, style),
      lines       |-> <<>>,
      child_lines |-> <<>>,
      stack       |-> stk ]

\* The printer state as one record, so that the operations compose.
PState == [ blocks |-> blocks, cur |-> cur, previous_stack |-> previous_stack,
            out |-> out, nextId |-> nextId, clock |-> clock ]

PSet(s) ==
    /\ blocks' = s.blocks
    /\ cur' = s.cur
    /\ previous_stack' = s.previous_stack
    /\ out' = s.out
    /\ nextId' = s.nextId
    /\ clock' = s.clock

\* Printer.__enter__ (stk is inspect.stack() after the filter, innermost
\* frame first).
Printer__enter__(s, style, stk) ==
    [ s EXCEPT
        !.blocks = (s.nextId :> EnterFields(s.nextId, style, stk, s.cur, s.blocks))
                   @@ s.blocks,
        !.cur = s.nextId,
        !.nextId = s.nextId + 1 ]

\* A faulty append, which queues the new line before the older ones.
Printer_append_front(s, id, cat, text) ==
    [ s EXCEPT
        !.blocks[id].lines = <<Line(cat, text, s.clock + 1)>> \o @,
        !.clock = s.clock + 1 ]

\* Printer.append(printer, *args, **kwargs) on block id.
Printer_append(s, id, cat, text) ==
    [ s EXCEPT
        !.blocks[id].lines = Append(@, Line(cat, text, s.clock + 1)),
        !.clock = s.clock + 1 ]

\* Printer.print(*args, **kwargs): append with the block's own style.
Printer_print(s, id, text) == Printer_append(s, id, s.blocks[id].style, text)

\* A faulty comparison, which finds no shared frame.
Diverge_none(stack, prev, i) == 0

\* The number of leading frames two stacks share: the loop of __exit__.
RECURSIVE Diverge(_, _, _)
Diverge(stack, prev, i) ==
    IF i < Min(Len(stack), Len(prev)) /\ stack[i + 1] = prev[i + 1]
    THEN Diverge(stack, prev, i + 1)
    ELSE i

\* One record written to the stream.
Written(kind, e, cat, text, frame, n, seq) ==
    [ kind |-> kind, blk |-> e.blk, up |-> e.up, bars |-> e.bars, cat |-> cat,
      text |-> text, frame |-> frame, n |-> n, seq |-> seq, stack |-> e.stack ]

\* dump(printer, bars, *args, **kwargs): one written record per non-empty
\* physical line of the rendered text.
RECURSIVE dump(_, _, _, _, _, _, _)
dump(kind, e, cat, text, frame, n, seq) ==
    IF text = <<>> THEN <<>>
    ELSE (IF Head(text) = "" THEN <<>>
          ELSE <<Written(kind, e, cat, Head(text), frame, n, seq)>>)
         \o dump(kind, e, cat, Tail(text), frame, n, seq)

\* A faulty marker, which counts the frames of the previous stack.
StackMarker_depth(e, prev, i) ==
    IF i > 0
    THEN IF i < Len(prev)
         THEN dump("up", e, "path", <<"<up>">>, e.stack[i], Len(prev), 0)
         ELSE <<>>
    ELSE dump("new", e, "path", <<"<new stack>">>, None, 0, 0)

\* The marker written before the frames of one block.
StackMarker(e, prev, i) ==
    IF i > 0
    THEN IF i < Len(prev)
         THEN dump("up", e, "path", <<"<up>">>, e.stack[i], Len(prev) - i, 0)
         ELSE <<>>
    ELSE dump("new", e, "path", <<"<new stack>">>, None, 0, 0)

\* A faulty rendering, which writes every frame of the block.
StackFrames_all(e, i) ==
    Concat([j \in 1..Len(e.stack) |->
                dump("frame", e, "path", <<"frame">>, e.stack[j], 0, 0)])

\* The frames of a block that are rendered: those from index i on.
StackFrames(e, i) ==
    Concat([j \in 1..(Len(e.stack) - i) |->
                dump("frame", e, "path", <<"frame">>, e.stack[i + j], 0, 0)])

\* The queued lines of a block, in the order they were appended.
BlockLines(e) ==
    Concat([k \in 1..Len(e.lines) |->
                dump("line", e, e.lines[k].cat, e.lines[k].text, None, 0,
                     e.lines[k].seq)])

\* A faulty test, with which no block is dropped.
Dropped_never(e) == FALSE

\* Whether a block is dropped at the flush.
Dropped(e) == Len(e.lines) = 0

\* A faulty loop body, which does not remember the stack it rendered.
RenderEntry_forgetful(e, prev) ==
    IF Dropped(e) THEN [written |-> <<>>, prev |-> prev]
    ELSE LET i == Diverge(e.stack, prev, 0)
         IN [ written |-> StackMarker(e, prev, i) \o StackFrames(e, i)
                          \o BlockLines(e),
              prev |-> prev ]

\* The body of the flush loop for one entry of stacked_lines.
RenderEntry(e, prev) ==
    IF Dropped(e) THEN [written |-> <<>>, prev |-> prev]
    ELSE LET i == Diverge(e.stack, prev, 0)
         IN [ written |-> StackMarker(e, prev, i) \o StackFrames(e, i)
                          \o BlockLines(e),
              prev |-> e.stack ]

\* The flush loop: for stack, bars, lines in stacked_lines.
RECURSIVE FlushEntries(_, _)
FlushEntries(entries, prev) ==
    IF entries = <<>> THEN [written |-> <<>>, prev |-> prev]
    ELSE LET r == RenderEntry(Head(entries), prev)
             rest == FlushEntries(Tail(entries), r.prev)
         IN [written |-> r.written \o rest.written, prev |-> rest.prev]

\* A faulty stacked_lines, which puts the block's own entry after its
\* children's (closing order).
StackedLines_closing(id, b) ==
    b.child_lines \o <<[ blk |-> id, up |-> b.parent, stack |-> Reverse(b.stack),
                         bars |-> b.bars, lines |-> b.lines ]>>

\* stacked_lines of __exit__: the block's own entry, then its children's.
StackedLines(id, b) ==
    <<[ blk |-> id, up |-> b.parent, stack |-> Reverse(b.stack),
        bars |-> b.bars, lines |-> b.lines ]>> \o b.child_lines

\* A faulty test, with which every block flushes when it closes.
IsOutermost_always(b) == TRUE

\* Whether __exit__ flushes: the block has no parent.
IsOutermost(b) == b.parent = None

\* The live blocks after block id is gone.
Without(bs, id) == [k \in (DOMAIN bs) \ {id} |-> bs[k]]

\* Printer.__exit__ of block id.
Printer__exit__(s, id) ==
    LET b == s.blocks[id]
        stacked == StackedLines(id, b)
    IN IF ~IsOutermost(b)
       THEN [ s EXCEPT
                !.blocks = Without([s.blocks EXCEPT
                               ![b.parent].child_lines = @ \o stacked], id),
                !.cur = b.parent ]
       ELSE LET f == FlushEntries(stacked, s.previous_stack)
            IN [ s EXCEPT
                   !.blocks = Without(s.blocks, id),
                   !.out = @ \o f.written,
                   !.previous_stack = f.prev,
                   !.cur = b.parent ]

\* "with POVPrint.<style>() as printer:" whose body prints the given texts,
\* each of one physical line, and opens no other block: enter, print each
\* text, exit.
RECURSIVE PrintAll(_, _, _)
PrintAll(s, id, texts) ==
    IF texts = <<>> THEN s
    ELSE PrintAll(Printer_print(s, id, <<Head(texts)>>), id, Tail(texts))

WithBlock(s, style, stk, texts) ==
    LET id == s.nextId
    IN Printer__exit__(PrintAll(Printer__enter__(s, style, stk), id, texts), id)

(***************************************************************************)
(* Python values and call results.  A value is a record with a tag t and   *)
(* a payload v (a sequence of integers, so that any two values compare).   *)
(***************************************************************************)
NoneV == [t |-> "None", v |-> <<>>]
IntV(n) == [t |-> "int", v |-> <<n>>]
StrV(chars) == [t |-> "str", v |-> chars]      \* a str, by its characters
TupleV(a, b) == [t |-> "tuple", k |-> a, item |-> b]     \* the pair (a, b)
SelfV == [t |-> "self", v |-> <<>>]      \* the container the method was called on

Returned(val) == [exc |-> "", val |-> val]
Raised(type) == [exc |-> type, val |-> NoneV]

(***************************************************************************)
(* The native list: what list.<method>(self, ...) does.  Each operator     *)
(* gives the result of the call and the list after it.                     *)
(***************************************************************************)
LRet(val, l) == [res |-> Returned(val), list |-> l]
LExc(type, l) == [res |-> Raised(type), list |-> l]

InRange(l, i) == -Len(l) <= i /\ i < Len(l)
Norm(l, i) == IF i < 0 THEN i + Len(l) ELSE i           \* 0-based position
RemoveAt(l, p) == SubSeq(l, 1, p) \o SubSeq(l, p + 2, Len(l))
InsertAt(l, p, v) == SubSeq(l, 1, p) \o <<v>> \o SubSeq(l, p + 1, Len(l))

RECURSIVE Repeat(_, _)
Repeat(l, n) == IF n <= 0 THEN <<>> ELSE l \o Repeat(l, n - 1)

RECURSIVE InsertSorted(_, _)
InsertSorted(l, v) ==
    IF l = <<>> THEN <<v>>
    ELSE IF v < Head(l) THEN <<v>> \o l
         ELSE <<Head(l)>> \o InsertSorted(Tail(l), v)

RECURSIVE Sorted(_)
Sorted(l) == IF l = <<>> THEN <<>>
             ELSE InsertSorted(Sorted(SubSeq(l, 1, Len(l) - 1)), l[Len(l)])

RECURSIVE IndexOf(_, _, _)
IndexOf(l, v, k) ==             \* the first position >= k holding v, or 0
    IF k > Len(l) THEN 0
    ELSE IF l[k] = v THEN k ELSE IndexOf(l, v, k + 1)

list___delitem__(l, i) ==
    IF InRange(l, i) THEN LRet(NoneV, RemoveAt(l, Norm(l, i)))
    ELSE LExc("IndexError", l)

\* rhs is [iterable, items]: list(rhs) of a non-iterable raises TypeError.
list___iadd__(l, rhs) ==
    IF rhs.iterable THEN LRet(SelfV, l \o rhs.items) ELSE LExc("TypeError", l)

\* mul is [isint, n]: a multiplier that is no integer raises TypeError.
list___imul__(l, mul) ==
    IF mul.isint THEN LRet(SelfV, Repeat(l, mul.n)) ELSE LExc("TypeError", l)

list___setitem__(l, i, v) ==
    IF InRange(l, i) THEN LRet(NoneV, [l EXCEPT ![Norm(l, i) + 1] = v])
    ELSE LExc("IndexError", l)

list_append(l, v) == LRet(NoneV, Append(l, v))

list_clear(l) == LRet(NoneV, <<>>)

list_insert(l, i, v) ==
    LET p == IF i < 0 THEN (IF i + Len(l) < 0 THEN 0 ELSE i + Len(l))
             ELSE Min(i, Len(l))
    IN LRet(NoneV, InsertAt(l, p, v))

list_pop(l, i) ==
    IF InRange(l, i) THEN LRet(IntV(l[Norm(l, i) + 1]), RemoveAt(l, Norm(l, i)))
    ELSE LExc("IndexError", l)

list_remove(l, v) ==
    LET k == IndexOf(l, v, 1)
    IN IF k = 0 THEN LExc("ValueError", l) ELSE LRet(NoneV, RemoveAt(l, k - 1))

list_reverse(l) == LRet(NoneV, Reverse(l))

list_sort(l, reverse) ==
    LRet(NoneV, IF reverse THEN Reverse(Sorted(l)) ELSE Sorted(l))

(***************************************************************************)
(* POVList (src/pov.py): the sequence proxy.  Each operator gives what the *)
(* native operators give, and the texts printed into the proxy's "attr"    *)
(* block (entered says whether the block was opened at all).               *)
(***************************************************************************)
Traced(r, texts) ==
    [res |-> r.res, list |-> r.list, entered |-> TRUE, lines |-> texts]
Untraced(r) ==
    [res |-> r.res, list |-> r.list, entered |-> FALSE, lines |-> <<>>]

POVList___delitem__(l, key) == Traced(list___delitem__(l, key), <<"del">>)

POVList___iadd__(l, rhs) ==
    IF ~rhs.iterable THEN Untraced(LExc("TypeError", l))     \* rhs = list(rhs)
    ELSE Traced(list___iadd__(l, rhs),
                <<"+=">> \o [k \in 1..Len(rhs.items) |-> "item"])

POVList___imul__(l, mul) == Traced(list___imul__(l, mul), <<"*=">>)

POVList___setitem__(l, index, value) ==
    Traced(list___setitem__(l, index, value), <<":=">>)

POVList_append(l, obj) == Traced(list_append(l, obj), <<"append">>)

POVList_clear(l) == Traced(list_clear(l), <<"cleared">>)

POVList_insert(l, index, obj) == Traced(list_insert(l, index, obj), <<"insert">>)

\* A faulty pop, which answers None where list.pop raises (as a pop with a
\* default would).
POVList_pop_defaulted(l, index) ==
    LET r == list_pop(l, index)
    IN IF r.res.exc # "" THEN Traced(LRet(NoneV, l), <<"pop">>)
       ELSE Traced(r, <<"pop">>)

\* value = list.pop(self, index) runs before the block is opened.
POVList_pop(l, index) ==
    LET r == list_pop(l, index)
    IN IF r.res.exc # "" THEN Untraced(r) ELSE Traced(r, <<"pop">>)

POVList_remove(l, obj) == Traced(list_remove(l, obj), <<"removing">>)

POVList_reverse(l) == Traced(list_reverse(l), <<"in-place reversal">>)

POVList_sort(l, reverse) == Traced(list_sort(l, reverse), <<"sorted">>)

(***************************************************************************)
(* The native dict: what dict.<method>(self, ...) does.  A dict is the     *)
(* sequence of its items [k, v] in insertion order; keys and values are    *)
(* Python values.                                                          *)
(***************************************************************************)
DRet(val, d) == [res |-> Returned(val), dict |-> d]
DExc(type, d) == [res |-> Raised(type), dict |-> d]

RECURSIVE KeyIndex(_, _, _)
KeyIndex(d, key, i) ==          \* the position of key in d, or 0
    IF i > Len(d) THEN 0
    ELSE IF d[i].k = key THEN i ELSE KeyIndex(d, key, i + 1)

Has(d, key) == KeyIndex(d, key, 1) # 0
Lookup(d, key) == d[KeyIndex(d, key, 1)].v

Store(d, key, value) ==
    IF Has(d, key) THEN [d EXCEPT ![KeyIndex(d, key, 1)].v = value]
    ELSE Append(d, [k |-> key, v |-> value])

RECURSIVE StoreAll(_, _)
StoreAll(d, items) ==
    IF items = <<>> THEN d
    ELSE StoreAll(Store(d, Head(items).k, Head(items).v), Tail(items))

dict___delitem__(d, key) ==
    IF Has(d, key) THEN DRet(NoneV, RemoveAt(d, KeyIndex(d, key, 1) - 1))
    ELSE DExc("KeyError", d)

dict___setitem__(d, key, value) == DRet(NoneV, Store(d, key, value))

dict___ior__(d, rhs) == DRet(SelfV, StoreAll(d, rhs))

dict_clear(d) == DRet(NoneV, <<>>)

\* dict.pop(key[, default]): without a default a missing key raises.
dict_pop(d, key, hasdefault, default) ==
    IF Has(d, key)
    THEN DRet(Lookup(d, key), RemoveAt(d, KeyIndex(d, key, 1) - 1))
    ELSE IF hasdefault THEN DRet(default, d) ELSE DExc("KeyError", d)

dict_popitem(d) ==
    IF d = <<>> THEN DExc("KeyError", d)
    ELSE DRet(TupleV(d[Len(d)].k, d[Len(d)].v), SubSeq(d, 1, Len(d) - 1))

\* dict.setdefault(key[, default]): default is None when it is omitted.
dict_setdefault(d, key, default) ==
    IF Has(d, key) THEN DRet(Lookup(d, key), d)
    ELSE DRet(default, Store(d, key, default))

\* dict.update(*args, **kwargs) with at most one positional mapping.
dict_update(d, args, kwargs) == DRet(NoneV, StoreAll(StoreAll(d, Concat(args)), kwargs))

(***************************************************************************)
(* POVDict (src/pov.py): the mapping proxy.                                *)
(***************************************************************************)
DTraced(r, texts) ==
    [res |-> r.res, dict |-> r.dict, entered |-> TRUE, lines |-> texts]
DUntraced(r) ==
    [res |-> r.res, dict |-> r.dict, entered |-> FALSE, lines |-> <<>>]

\* "for k, v in rhs" unpacks each key: it must be an iterable of two items.
Unpackable(key) == key.t \in {"str", "tuple"} /\ Len(key.v) = 2
UnpackError(key) == IF key.t = "int" THEN "TypeError" ELSE "ValueError"

\* self.cons is read while the arguments of printer.print are evaluated:
\* POVDict has no attribute cons, so the block is left with no line queued.
ConsError(d) == DTraced(DExc("AttributeError", d), <<>>)

POVDict___delitem__(d, key) == ConsError(d)

POVDict___setitem__(d, key, value) ==
    DTraced(dict___setitem__(d, key, value), <<":=">>)

\* The lines printed by "for k, v in rhs" up to the first key that does not
\* unpack, and the error it raises ("" when every key unpacks).
RECURSIVE IorLoop(_)
IorLoop(items) ==
    IF items = <<>> THEN [lines |-> <<>>, exc |-> ""]
    ELSE IF ~Unpackable(Head(items).k)
         THEN [lines |-> <<>>, exc |-> UnpackError(Head(items).k)]
         ELSE LET rest == IorLoop(Tail(items))
              IN [lines |-> <<"item">> \o rest.lines, exc |-> rest.exc]

POVDict___ior__(d, rhs) ==
    LET loop == IorLoop(rhs)
    IN IF loop.exc # "" THEN DTraced(DExc(loop.exc, d), <<"|=">> \o loop.lines)
       ELSE DTraced(dict___ior__(d, rhs), <<"|=">> \o loop.lines)

POVDict_clear(d) == DTraced(dict_clear(d), <<"cleared">>)

\* value = dict.pop(self, key, default) runs first, always with a default
\* (None when the caller gave none); the block then fails on self.cons.
POVDict_pop(d, key, hasdefault, default) ==
    ConsError(dict_pop(d, key, TRUE, IF hasdefault THEN default ELSE NoneV).dict)

POVDict_popitem(d) ==
    LET r == dict_popitem(d)
    IN IF r.res.exc # "" THEN DUntraced(r) ELSE DTraced(r, <<"popitem">>)

\* value = dict.setdefault(self, key, default) runs first; the block then
\* fails on self.cons.
POVDict_setdefault(d, key, default) ==
    ConsError(dict_setdefault(d, key, default).dict)

\* The loop over **kwargs prints POVPrint.value(key): key is the variable of
\* the loop over the positional mappings, unbound if that loop never ran.
POVDict_update(d, args, kwargs) ==
    LET positional == [i \in 1..Len(Concat(args)) |-> "item"]
    IN IF kwargs # <<>> /\ Concat(args) = <<>>
       THEN DTraced(DExc("UnboundLocalError", d), <<"update:">>)
       ELSE DTraced(dict_update(d, args, kwargs),
                    <<"update:">> \o positional
                    \o [i \in 1..Len(kwargs) |-> "item"])

(***************************************************************************)
(* The buffer driven by an arbitrary well-nested client: any library       *)
(* function that runs "with POVPrint.<style>() as printer" and appends.    *)
(***************************************************************************)
Styles == {"attr"}
Texts == {<<"t">>}
\* The client opens its blocks from one line; the call sites vary in the
\* specification of the stack rendering below.
ClientStacks == {<<1>>}

\* The class attributes of POV.Printer as the class statement sets them,
\* and the empty stream.
Blank ==
    [ blocks |-> <<>>, cur |-> None, previous_stack |-> <<>>, out |-> <<>>,
      nextId |-> 1, clock |-> 0 ]

\* init(ignore_frames), which "import pov" runs when the package is not
\* disabled: the head block with the greeting, the invocation and the time
\* (POV_ENV names no variable).  stk is the stack of the import statement.
HeadTexts ==
    <<"Initialising Python Object Viewer", "Invocation: <argv>", "Time: <now>">>

init(s, stk) == WithBlock(s, "head", stk, HeadTexts)

\* The blocks bs = <<[style, stk, texts], ...>> entered and left one after
\* the other.
RECURSIVE Blocks(_, _)
Blocks(s, bs) ==
    IF bs = <<>> THEN s
    ELSE Blocks(WithBlock(s, Head(bs).style, Head(bs).stk, Head(bs).texts),
                Tail(bs))

\* The printer at the client's first step, when the program printed the
\* blocks bs before it: what they wrote is in the stream and the stack of
\* the last one is the previous stack.  The history counters nextId and
\* clock count the client's blocks and lines from 1: the blocks printed
\* before have the numbers below 0.
Earlier(bs) ==
    [ Blocks([Blank EXCEPT !.nextId = 0 - Len(bs), !.clock = 0 - 3 * Len(bs)], bs)
        EXCEPT !.nextId = 1, !.clock = 0 ]

\* The stack of the statement "import pov": the line the client's first
\* block is opened from, or another line of the client's module.
ImportStacks == {<<1>>, <<4>>}

\* The blocks printed by the import: init's head block for the package,
\* none for src/pov.py and for the stub.
Imported(stk) ==
    IF impl = "pov/_impl.py"
    THEN <<[style |-> "head", stk |-> stk, texts |-> HeadTexts]>>
    ELSE <<>>

PrinterIs(s) ==
    /\ blocks = s.blocks
    /\ cur = s.cur
    /\ previous_stack = s.previous_stack
    /\ out = s.out
    /\ nextId = s.nextId
    /\ clock = s.clock

\* The printer after "import pov" (impl says which module that is).
PrinterStart == \E stk \in ImportStacks : PrinterIs(Earlier(Imported(stk)))

NoRes == [op |-> "", proxy |-> Returned(NoneV), native |-> Returned(NoneV)]

\* No list in use.
ListIdle == povlist = <<>> /\ natlist = <<>> /\ listres = NoRes

\* No dict in use.
DictIdle == povdict = <<>> /\ natdict = <<>> /\ dictres = NoRes

\* The outcome of a call: none yet, a value, or an exception instance.
NoOutcome == [kind |-> "none", val |-> NoneV, id |-> 0, cls |-> ""]
Value(v) == [kind |-> "val", val |-> v, id |-> 0, cls |-> ""]
Exc(id, cls) == [kind |-> "exc", val |-> NoneV, id |-> id, cls |-> cls]

\* No tracked call made.
TrackIdle ==
    /\ frames = <<>>
    /\ mem = <<>>
    /\ ret = NoOutcome
    /\ calls = <<>>
    /\ nexc = 0

\* The program of attribute tracking: one class and two instances of it.
Impls == {"pov.py", "pov/_impl.py"}
Class == "A"
Instances == {"x", "y"}
AttrNames == {"a", "b"}
All == "all"                \* the built-in function all, used as a marker
NoObj == ""                 \* the class has no hook yet

DictV == [t |-> "dict", v |-> <<>>]       \* an empty dict
ListV == [t |-> "list", v |-> <<>>]       \* an empty list
Unset == [t |-> "unset", v |-> <<>>]      \* the instance has no such attribute

NoAttrRes == [ op |-> "", obj |-> "", attr |-> "", value |-> NoneV,
               lines |-> 0, blocks |-> 0, exc |-> "" ]

\* Class A as it is defined: no registry, no hook, no attribute set.
NoRegistry ==
    /\ attr_dict = <<>>
    /\ hook_obj = NoObj
    /\ store = [i \in Instances |-> [a \in AttrNames |-> Unset]]
    /\ attrres = NoAttrRes

\* No attribute tracked: the package is imported and class A is untouched.
AttrIdle == impl = "pov/_impl.py" /\ NoRegistry

\* No front-end operation called yet: class A has no __getattribute__
\* hook and the client holds no mutable object.
NoFront == [op |-> ""]
NoBound == [set |-> FALSE, n |-> 0]        \* None as a bound of a range
Bound(n) == [set |-> TRUE, n |-> n]
AllIds == <<[lo |-> NoBound, hi |-> NoBound]>>      \* [(None, None)]
FrontIdle ==
    /\ fun_dict = <<>>
    /\ fun_obj = NoObj
    /\ heap = <<>>
    /\ global_id_range = AllIds
    /\ front = NoFront

InitPrinter ==
    AttrIdle /\ PrinterStart /\ ListIdle /\ DictIdle /\ FrontIdle /\ TrackIdle /\ nops = 0

Enter ==
    /\ nextId <= MaxBlocks
    /\ \E style \in Styles, stk \in ClientStacks :
          PSet(Printer__enter__(PState, style, stk))

AppendLine ==
    /\ cur # None
    /\ clock < MaxLines
    /\ \E text \in Texts : PSet(Printer_print(PState, cur, text))

Exit ==
    /\ cur # None
    /\ PSet(Printer__exit__(PState, cur))

NextPrinter ==
    (Enter \/ AppendLine \/ Exit)
    /\ UNCHANGED <<proxyVars, trackVars, attrVars, nops>>

SpecPrinter == InitPrinter /\ [][NextPrinter]_vars

(***************************************************************************)
(* The same client opening its blocks from several call sites: the stacks  *)
(* the blocks capture share a prefix, diverge after one, have no frame in  *)
(* common, or are empty (every frame filtered out by __enter__).  Frames   *)
(* are numbers; a stack is written innermost frame first, as               *)
(* inspect.stack() gives it.                                               *)
(***************************************************************************)
CallSites == {<<>>, <<1>>, <<2, 1>>, <<3, 1>>, <<3>>}

EnterAt ==
    /\ nextId <= MaxSiteBlocks
    /\ \E style \in Styles, stk \in CallSites :
          PSet(Printer__enter__(PState, style, stk))

PrintLine ==
    /\ cur # None
    /\ clock < MaxSiteLines
    /\ \E text \in Texts : PSet(Printer_print(PState, cur, text))

ExitBlock ==
    /\ cur # None
    /\ PSet(Printer__exit__(PState, cur))

NextStack ==
    (EnterAt \/ PrintLine \/ ExitBlock)
    /\ UNCHANGED <<proxyVars, trackVars, attrVars, nops>>

SpecStack == InitPrinter /\ [][NextStack]_vars

(***************************************************************************)
(* A POVList and a native list with equal contents, given the same         *)
(* operations with the same arguments by a client with no block open.      *)
(***************************************************************************)
ListValues == {1, 2}
ListIndexes == {-2, -1, 0, 1}
InitLists == {<<>>, <<2>>, <<2, 1>>, <<1, 2, 1>>}
IaddArgs == { [iterable |-> TRUE, items |-> <<>>],
              [iterable |-> TRUE, items |-> <<1, 2>>],
              [iterable |-> FALSE, items |-> <<>>] }
ImulArgs == { [isint |-> TRUE, n |-> -1], [isint |-> TRUE, n |-> 0],
              [isint |-> TRUE, n |-> 2], [isint |-> FALSE, n |-> 0] }
CallerStack == <<1>>      \* the client's call stack: one frame

\* POVObj.__init__(self, name, base_type) of src/pov.py, which the
\* constructors of the proxies run: the info block that announces the proxy.
POVObj__init__(s, name, base_type, stk) ==
    WithBlock(s, "info", stk,
              <<"Intercepting builtins." \o base_type \o " instance " \o name>>)

\* The stack of the statement that constructs the proxy: the line the
\* operations are called from, another line, or no frame of the client.
ConstructorStacks == {CallerStack, <<4>>, <<>>}

\* POVList(l) was constructed (pov_name is "POVList"): list.__init__, then
\* POVObj.__init__.
InitList ==
    /\ impl = "pov.py" /\ NoRegistry
    /\ \E stk \in ConstructorStacks :
          PrinterIs(POVObj__init__(Blank, "POVList", "list", stk))
    /\ \E l \in InitLists : povlist = l /\ natlist = l
    /\ listres = NoRes
    /\ DictIdle /\ FrontIdle
    /\ TrackIdle
    /\ nops = 0

\* One operation on both lists: p is the proxy's outcome, n the native one.
ListOp(op, p, n) ==
    /\ nops < MaxListOps
    /\ nops' = nops + 1
    /\ povlist' = p.list
    /\ natlist' = n.list
    /\ listres' = [op |-> op, proxy |-> p.res, native |-> n.res]
    /\ IF p.entered THEN PSet(WithBlock(PState, "attr", CallerStack, p.lines))
       ELSE UNCHANGED printerVars
    /\ UNCHANGED <<dictVars, frontVars, trackVars, attrVars>>

ListDelitem ==
    \E i \in ListIndexes :
        ListOp("__delitem__", POVList___delitem__(povlist, i),
               list___delitem__(natlist, i))

ListIadd ==
    \E rhs \in IaddArgs :
        ListOp("__iadd__", POVList___iadd__(povlist, rhs),
               list___iadd__(natlist, rhs))

ListImul ==
    \E mul \in ImulArgs :
        ListOp("__imul__", POVList___imul__(povlist, mul),
               list___imul__(natlist, mul))

ListSetitem ==
    \E i \in ListIndexes, v \in ListValues :
        ListOp("__setitem__", POVList___setitem__(povlist, i, v),
               list___setitem__(natlist, i, v))

ListAppend ==
    \E v \in ListValues :
        ListOp("append", POVList_append(povlist, v), list_append(natlist, v))

ListClear == ListOp("clear", POVList_clear(povlist), list_clear(natlist))

ListInsert ==
    \E i \in ListIndexes, v \in ListValues :
        ListOp("insert", POVList_insert(povlist, i, v),
               list_insert(natlist, i, v))

ListPop ==      \* pop() is pop(-1)
    \E i \in ListIndexes :
        ListOp("pop", POVList_pop(povlist, i), list_pop(natlist, i))

ListRemove ==
    \E v \in ListValues :
        ListOp("remove", POVList_remove(povlist, v), list_remove(natlist, v))

ListReverse == ListOp("reverse", POVList_reverse(povlist), list_reverse(natlist))

ListSort ==
    \E reverse \in BOOLEAN :
        ListOp("sort", POVList_sort(povlist, reverse), list_sort(natlist, reverse))

NextList ==
    \/ ListDelitem \/ ListIadd \/ ListImul \/ ListSetitem \/ ListAppend
    \/ ListClear \/ ListInsert \/ ListPop \/ ListRemove \/ ListReverse
    \/ ListSort

SpecList == InitList /\ [][NextList]_vars

(***************************************************************************)
(* A POVDict and a native dict with equal contents, given the same         *)
(* operations with the same arguments by a client with no block open.      *)
(***************************************************************************)
DictKeys == {IntV(1), IntV(2), StrV(<<1, 2>>)}    \* 1, 2 and a str of two characters
KwKeys == {StrV(<<1, 2>>)}                         \* the names **kwargs can carry
DictValues == {IntV(5), IntV(6)}
Defaults == {NoneV, IntV(6)}
Item(key, value) == [k |-> key, v |-> value]
InitDicts == { <<>>, <<Item(IntV(1), IntV(5))>>,
               <<Item(IntV(2), IntV(5)), Item(StrV(<<1, 2>>), IntV(6))>> }
Mappings == { <<>>, <<Item(IntV(1), IntV(6))>>, <<Item(StrV(<<1, 2>>), IntV(5))>> }
Kwargs == { <<>>, <<Item(StrV(<<1, 2>>), IntV(6))>> }

\* POVDict(d) was constructed (pov_name is "POVDict"): dict.__init__, then
\* POVObj.__init__.
InitDict ==
    /\ impl = "pov.py" /\ NoRegistry
    /\ \E stk \in ConstructorStacks :
          PrinterIs(POVObj__init__(Blank, "POVDict", "dict", stk))
    /\ ListIdle /\ FrontIdle
    /\ \E d \in InitDicts : povdict = d /\ natdict = d
    /\ dictres = NoRes
    /\ TrackIdle
    /\ nops = 0

\* One operation on both dicts: p is the proxy's outcome, n the native one.
DictOp(op, p, n) ==
    /\ nops < MaxDictOps
    /\ nops' = nops + 1
    /\ povdict' = p.dict
    /\ natdict' = n.dict
    /\ dictres' = [op |-> op, proxy |-> p.res, native |-> n.res]
    /\ IF p.entered THEN PSet(WithBlock(PState, "attr", CallerStack, p.lines))
       ELSE UNCHANGED printerVars
    /\ UNCHANGED <<listVars, frontVars, trackVars, attrVars>>

DictDelitem ==
    \E key \in DictKeys :
        DictOp("__delitem__", POVDict___delitem__(povdict, key),
               dict___delitem__(natdict, key))

DictSetitem ==
    \E key \in DictKeys, value \in DictValues :
        DictOp("__setitem__", POVDict___setitem__(povdict, key, value),
               dict___setitem__(natdict, key, value))

DictIor ==
    \E rhs \in Mappings :
        DictOp("__ior__", POVDict___ior__(povdict, rhs), dict___ior__(natdict, rhs))

DictClear == DictOp("clear", POVDict_clear(povdict), dict_clear(natdict))

DictPop ==
    \E key \in DictKeys, hasdefault \in BOOLEAN, default \in Defaults :
        DictOp("pop", POVDict_pop(povdict, key, hasdefault, default),
               dict_pop(natdict, key, hasdefault, default))

DictPopitem == DictOp("popitem", POVDict_popitem(povdict), dict_popitem(natdict))

DictSetdefault ==
    \E key \in DictKeys, default \in Defaults :
        DictOp("setdefault", POVDict_setdefault(povdict, key, default),
               dict_setdefault(natdict, key, default))

DictUpdate ==
    \E args \in {<<>>} \cup {<<m>> : m \in Mappings}, kwargs \in Kwargs :
        DictOp("update", POVDict_update(povdict, args, kwargs),
               dict_update(natdict, args, kwargs))

NextDict ==
    \/ DictDelitem \/ DictSetitem \/ DictIor \/ DictClear \/ DictPop
    \/ DictPopitem \/ DictSetdefault \/ DictUpdate

SpecDict == InitDict /\ [][NextDict]_vars

(***************************************************************************)
(* Tracked calls: POV.track(target) for a function.  The call stack of the *)
(* program is the sequence frames, innermost frame last.  A frame of the   *)
(* wrapper _pov_tracked_function has fn = "tracked"; the other frames are  *)
(* frames of the tracked functions themselves.  ret is the outcome the     *)
(* frame that just ended hands to its caller: a value, or an exception     *)
(* instance (id) of a class (cls) on its way up.                           *)
(***************************************************************************)

\* The reference to the dict that is binom's default argument mem={}.
MemV == [t |-> "dict", v |-> <<>>]

\* An exception class, passed as a value.
ClassV(name) == [t |-> "type", v |-> <<>>, name |-> name]

\* issubclass(cls, Exception), for the classes the tracked functions raise.
IsException(cls) == cls \in {"KeyError"}

Frame(fn, target, args, kwargs, fid, call) ==
    [ fn |-> fn, target |-> target, args |-> args, kwargs |-> kwargs,
      pc |-> "start", blk |-> None, fid |-> fid, call |-> call, a |-> NoneV ]

Top == frames[Len(frames)]
Pop == SubSeq(frames, 1, Len(frames) - 1)
SetTop(f) == [frames EXCEPT ![Len(frames)] = f]

\* The binding of parameter number pos, named name, of a call.
RECURSIVE KwIndex(_, _, _)
KwIndex(kwargs, name, i) ==
    IF i > Len(kwargs) THEN 0
    ELSE IF kwargs[i].kw = name THEN i ELSE KwIndex(kwargs, name, i + 1)

Param(f, pos, name) ==
    IF pos <= Len(f.args) THEN f.args[pos]
    ELSE f.kwargs[KwIndex(f.kwargs, name, 1)].val

\* inspect.stack() after the filter of __enter__: the frames of the program
\* (the frames of the library are ignored), innermost first, down to the
\* frame of the client, which is frame 1.
RECURSIVE UserStack(_)
UserStack(fs) ==
    IF fs = <<>> THEN <<1>>
    ELSE LET f == fs[Len(fs)]
             below == UserStack(SubSeq(fs, 1, Len(fs) - 1))
         IN IF f.fn = "tracked" THEN below ELSE <<f.fid>> \o below

\* POVPrint.value(v, depthlimit=2) of the package, which is what
\* _printvalue gives: the physical lines a value renders to.  An int is one
\* line; a dict is one line when empty and otherwise an opening line, one
\* line per item and a closing line.  init has rebound builtins.type to
\* _POV_type, so that isinstance(v, type) is False for a class: an exception
\* class is rendered as an object, POVPrint.instance(v) and the one
\* attribute dir(v) lists that is neither private nor callable.
\* A list or a dict holding ints is written on one line, "[ 1, 2 ]" and
\* "{ 1 : 5 }", while it has fewer than 10 items (a dict: fewer than 5),
\* and otherwise with every item on a line of its own, as a dict with a
\* tuple among its keys always is.  m holds the items of a dict whose keys
\* are pairs of ints.
ItemText(m, i) ==
    "  ( " \o ToString(m[i].k[1]) \o ", " \o ToString(m[i].k[2]) \o " ) : "
      \o ToString(m[i].v.v[1]) \o (IF i < Len(m) THEN "," ELSE "")

\* POVPrint.join(jstr, *elts): the texts with jstr between them.
RECURSIVE join(_, _)
join(jstr, elts) ==
    IF elts = <<>> THEN ""
    ELSE IF Len(elts) = 1 THEN elts[1]
    ELSE elts[1] \o jstr \o join(jstr, Tail(elts))

\* ", ".join of the numerals of a list of integers
JoinInts(items) == join(", ", [i \in 1..Len(items) |-> ToString(items[i])])

\* str(l)
list___str__(items) == "[" \o JoinInts(items) \o "]"

\* POVPrint.value(l) for a list of integers within the depth limit
value_of_list(items) ==
    IF items = <<>> THEN "[]" ELSE "[ " \o JoinInts(items) \o " ]"

\* POVPrint.type(cls): the path of a class of the client, kept apart from
\* POVPrint.instance(obj), for which the model writes the name of obj.
POVPrint_type(cls) == "<type " \o cls \o ">"

\* An instance of a class of the client that defines neither __repr__ nor
\* __str__ and has no public attribute that is not callable.
ObjV(cls, name) == [t |-> "object", v |-> <<>>, cls |-> cls, name |-> name]

ValueText(v, m) ==
    LET atom(e) == IF e.t = "int" THEN ToString(e.v[1]) ELSE "None"
        pairs == [i \in 1..Len(v.v) |-> atom(v.v[i].k) \o " : " \o atom(v.v[i].v)]
        deep(elts) == [i \in 1..Len(elts) |->
                         "  " \o elts[i] \o (IF i < Len(elts) THEN "," ELSE "")]
    IN
    IF v.t = "int" THEN <<ToString(v.v[1])>>
    ELSE IF v.t = "list"
         THEN IF Len(v.v) < 10 THEN <<value_of_list(v.v)>>
              ELSE <<"[">> \o deep([i \in 1..Len(v.v) |-> ToString(v.v[i])])
                     \o <<"  ]">>
    ELSE IF v.t = "dict"
         THEN IF m # <<>>
              THEN <<"{">> \o [i \in 1..Len(m) |-> ItemText(m, i)] \o <<"  }">>
              ELSE IF Len(v.v) < 5 THEN <<"{ " \o join(", ", pairs) \o " }">>
              ELSE <<"{">> \o deep(pairs) \o <<"  }">>
    ELSE IF v.t = "None" THEN <<"None">>
    ELSE IF v.t = "object" THEN <<v.cls \o "<" \o v.name \o ">">>
    ELSE << "builtins.type{ <class '" \o v.name \o "'> }(",
            "  args=builtins.getset_descriptor{ <attribute 'args' of 'BaseException' objects> }",
            "  )" >>

\* POVPrint.value(v) of src/pov.py: str(v) and the path of the type of v,
\* on one line; an int, a list, a dict, None (rendered as the empty text),
\* an instance of a class of the client (object.__repr__) and a class.  The
\* str of a POVList or POVDict is the name it was given and then the items
\* (POVObj.__repr__).
POVPrint_value(v) ==
    LET atom(e) == IF e.t = "int" THEN ToString(e.v[1]) ELSE "None"
        dict___str__(items) ==
            "{" \o join(", ", [i \in 1..Len(items) |->
                          atom(items[i].k) \o ": " \o atom(items[i].v)]) \o "}"
    IN
    IF v.t = "int" THEN ToString(v.v[1]) \o " :: builtins.int"
    ELSE IF v.t = "list" THEN list___str__(v.v) \o " :: builtins.list"
    ELSE IF v.t = "dict" THEN dict___str__(v.v) \o " :: builtins.dict"
    ELSE IF v.t = "POVList" THEN v.name \o list___str__(v.v) \o " :: pov.POVList"
    ELSE IF v.t = "POVDict" THEN v.name \o dict___str__(v.v) \o " :: pov.POVDict"
    ELSE IF v.t = "None" THEN " :: builtins.NoneType"
    ELSE IF v.t = "object"
         THEN "<" \o v.cls \o " object " \o v.name \o "> :: " \o POVPrint_type(v.cls)
    ELSE "<class '" \o v.name \o "'> :: builtins.type"

\* The rendering of a value by the module in use.
Rendering(v, m) ==
    IF impl = "pov.py" THEN <<POVPrint_value(v)>> ELSE ValueText(v, m)

\* POVPrint.exception(exc): the path of the type of exc, ": " and str(exc).
exception(cls, text) == "builtins." \o cls \o ": " \o text

\* sep.join(str(arg) for arg in args) with the physical lines of the value
\* rendered last: before goes in front of the first line, after behind the
\* last one.
Around(before, text, after) ==
    [i \in 1..Len(text) |->
        (IF i = 1 THEN before ELSE "") \o text[i]
          \o (IF i = Len(text) THEN after ELSE "")]

\* printer.print('\t', self._printvalue(arg), end=',\n'): the text ends in
\* a newline, so that its split has an empty last line.
ArgText(v, m) == Around("\t ", ValueText(v, m), ",") \o <<"">>
KwText(kw, v, m) == Around("\t " \o kw \o "=", ValueText(v, m), ",") \o <<"">>

RECURSIVE PrintArgs(_, _, _, _)
PrintArgs(s, id, args, m) ==
    IF args = <<>> THEN s
    ELSE PrintArgs(Printer_print(s, id, ArgText(Head(args), m)), id,
                   Tail(args), m)

RECURSIVE PrintKwargs(_, _, _, _)
PrintKwargs(s, id, kwargs, m) ==
    IF kwargs = <<>> THEN s
    ELSE PrintKwargs(Printer_print(s, id, KwText(Head(kwargs).kw,
                                                 Head(kwargs).val, m)),
                     id, Tail(kwargs), m)

\* _pov_tracked_function up to the call of the target: the block is
\* entered, and the name and one line per argument are printed.
TrackedHeader(s, name, args, kwargs, stk, m) ==
    LET id == s.nextId
        s1 == Printer__enter__(s, "func", stk)
        s2 == Printer_print(s1, id, <<name \o "(">>)
    IN PrintKwargs(PrintArgs(s2, id, args, m), id, kwargs, m)

\* A faulty wrapper, which appends no result line.
OnReturn_silent(s, blk, res, m) ==
    [ ps |-> Printer__exit__(s, blk), ret |-> Value(res) ]

\* _pov_tracked_function when the target returned res: the result line is
\* appended, the block is left and res is returned.
OnReturn(s, blk, res, m) ==
    [ ps |-> Printer__exit__(
                 Printer_append(s, blk, "ok",
                                Around(") => ", ValueText(res, m), "")), blk),
      ret |-> Value(res) ]

\* A faulty wrapper, which raises an exception of its own in place of the
\* one it caught.
OnRaise_replaced(s, blk, exc) ==
    IF IsException(exc.cls)
    THEN [ ps |-> Printer__exit__(
                      Printer_append(s, blk, "bad",
                                     <<") >< " \o exception(exc.cls, "")>>), blk),
           ret |-> Exc(exc.id + 1, exc.cls) ]
    ELSE [ ps |-> Printer__exit__(s, blk), ret |-> exc ]

\* _pov_tracked_function when the target raised exc (an instance made with
\* no argument, whose str is empty): "except Exception as exc" appends the
\* exception line and raises exc again; an exception that
\* is no Exception passes through the try statement.  Either way the block
\* is left on the way out.
OnRaise(s, blk, exc) ==
    IF IsException(exc.cls)
    THEN [ ps |-> Printer__exit__(
                      Printer_append(s, blk, "bad",
                                     <<") >< " \o exception(exc.cls, "")>>), blk),
           ret |-> exc ]
    ELSE [ ps |-> Printer__exit__(s, blk), ret |-> exc ]

(***************************************************************************)
(* The tracked functions and their client.  binom is the memoised          *)
(* recursion of the sample; raiser raises a new exception instance of the  *)
(* class its argument names; relay calls the tracked raiser and does not   *)
(* catch.  calls is history: one record per invocation of the wrapper, in  *)
(* the order the invocations began.                                        *)
(***************************************************************************)
BinomArgs ==
    {<<n, k>> : n \in 1..3, k \in 0..3} \cup {<<1, -1>>}
RaisedClasses == {"KeyError", "KeyboardInterrupt"}

\* The calls the client makes: positional, or with k passed by keyword.
TopCalls ==
    {[target |-> "binom", args |-> <<IntV(p[1]), IntV(p[2])>>, kwargs |-> <<>>] :
        p \in {q \in BinomArgs : q[2] <= q[1] + 1}}
    \cup {[target |-> "binom", args |-> <<IntV(p[1])>>,
           kwargs |-> <<[kw |-> "k", val |-> IntV(p[2])]>>] :
            p \in {q \in BinomArgs : q[2] <= q[1] + 1}}
    \cup {[target |-> t, args |-> <<ClassV(c)>>, kwargs |-> <<>>] :
            t \in {"raiser", "relay"}, c \in RaisedClasses}

\* POV.track(target) for a function, the decoration: an info block that
\* names the function, entered from the line of the decorator.
Tracking(name, stk) ==
    [style |-> "info", stk |-> stk, texts |-> <<"Tracking function " \o name>>]

\* The decorators of the client's module, each on a line of its own.
Decorations ==
    <<Tracking("binom", <<5>>), Tracking("raiser", <<6>>), Tracking("relay", <<7>>)>>

\* The package is imported and the three functions are decorated, on lines
\* the client calls nothing from.
InitTrack ==
    /\ AttrIdle
    /\ PrinterIs(Earlier(Imported(<<4>>) \o Decorations))
    /\ ListIdle /\ DictIdle /\ FrontIdle /\ TrackIdle /\ nops = 0

\* A call of the tracked function from the frame on top (or the client).
Invoke(fs, target, args, kwargs) ==
    Append(fs, Frame("tracked", target, args, kwargs, None, None))

\* The client calls a tracked function.
Call ==
    /\ frames = <<>>
    /\ nops < MaxCalls
    /\ \E c \in TopCalls : frames' = Invoke(frames, c.target, c.args, c.kwargs)
    /\ ret' = NoOutcome
    /\ nops' = nops + 1
    /\ UNCHANGED <<printerVars, proxyVars, attrVars, mem, calls, nexc>>

\* The wrapper begins: block, name and argument lines, then the target is
\* called with the same arguments.
TrackedEnter ==
    /\ frames # <<>>
    /\ Top.fn = "tracked" /\ Top.pc = "start"
    /\ PSet(TrackedHeader(PState, Top.target, Top.args, Top.kwargs,
                          UserStack(frames), mem))
    /\ calls' = Append(calls, [ target |-> Top.target, nargs |-> Len(Top.args),
                                nkw |-> Len(Top.kwargs), blk |-> nextId,
                                orig |-> NoOutcome, wrap |-> NoOutcome ])
    /\ frames' = Append(SetTop([Top EXCEPT !.pc = "called", !.blk = nextId,
                                           !.call = Len(calls) + 1]),
                        Frame(Top.target, Top.target, Top.args, Top.kwargs,
                              nextId + 1, None))
    /\ UNCHANGED <<proxyVars, attrVars, mem, ret, nexc, nops>>

\* The wrapper ends after the target returned or raised.
TrackedLeave(r) ==
    /\ PSet(r.ps)
    /\ ret' = r.ret
    /\ calls' = [calls EXCEPT ![Top.call].orig = ret, ![Top.call].wrap = r.ret]
    /\ frames' = Pop
    /\ UNCHANGED <<proxyVars, attrVars, mem, nexc, nops>>

TrackedReturn ==
    /\ frames # <<>>
    /\ Top.fn = "tracked" /\ Top.pc = "called" /\ ret.kind = "val"
    /\ TrackedLeave(OnReturn(PState, Top.blk, ret.val, mem))

TrackedRaise ==
    /\ frames # <<>>
    /\ Top.fn = "tracked" /\ Top.pc = "called" /\ ret.kind = "exc"
    /\ TrackedLeave(OnRaise(PState, Top.blk, ret))

\* "return v" of the frame on top.
Return(v) ==
    /\ frames' = Pop
    /\ ret' = Value(v)

\* binom(n, k, mem={}) up to its first recursive call, or to its return.
BinomStart ==
    /\ frames # <<>>
    /\ Top.fn = "binom" /\ Top.pc = "start"
    /\ LET n == Param(Top, 1, "n").v[1]
           k == Param(Top, 2, "k").v[1]
       IN IF ~(0 <= k /\ k <= n) THEN Return(IntV(0))
          ELSE IF k = 0 \/ k = n THEN Return(IntV(1))
          ELSE IF Has(mem, <<n, k>>) THEN Return(Lookup(mem, <<n, k>>))
          ELSE /\ frames' = Invoke(SetTop([Top EXCEPT !.pc = "first"]), "binom",
                                   <<IntV(n - 1), IntV(k - 1), MemV>>, <<>>)
               /\ ret' = NoOutcome
    /\ UNCHANGED <<printerVars, proxyVars, attrVars, mem, calls, nexc, nops>>

\* binom after binom(n-1, k-1, mem) returned: the call of binom(n-1, k, mem).
BinomSecond ==
    /\ frames # <<>>
    /\ Top.fn = "binom" /\ Top.pc = "first" /\ ret.kind = "val"
    /\ LET n == Param(Top, 1, "n").v[1]
           k == Param(Top, 2, "k").v[1]
       IN frames' = Invoke(SetTop([Top EXCEPT !.pc = "second", !.a = ret.val]),
                           "binom", <<IntV(n - 1), IntV(k), MemV>>, <<>>)
    /\ ret' = NoOutcome
    /\ UNCHANGED <<printerVars, proxyVars, attrVars, mem, calls, nexc, nops>>

\* binom after binom(n-1, k, mem) returned: the sum is stored in mem and
\* mem[n, k] is returned.
BinomStore ==
    /\ frames # <<>>
    /\ Top.fn = "binom" /\ Top.pc = "second" /\ ret.kind = "val"
    /\ LET n == Param(Top, 1, "n").v[1]
           k == Param(Top, 2, "k").v[1]
           m == Store(mem, <<n, k>>, IntV(Top.a.v[1] + ret.val.v[1]))
       IN mem' = m /\ Return(Lookup(m, <<n, k>>))
    /\ UNCHANGED <<printerVars, proxyVars, attrVars, calls, nexc, nops>>

\* raiser(cls): raise cls(), a new instance.
Raiser ==
    /\ frames # <<>>
    /\ Top.fn = "raiser" /\ Top.pc = "start"
    /\ nexc' = nexc + 1
    /\ ret' = Exc(nexc + 1, Top.args[1].name)
    /\ frames' = Pop
    /\ UNCHANGED <<printerVars, proxyVars, attrVars, mem, calls, nops>>

\* relay(cls): return raiser(cls), through the wrapper of raiser.
RelayCall ==
    /\ frames # <<>>
    /\ Top.fn = "relay" /\ Top.pc = "start"
    /\ frames' = Invoke(SetTop([Top EXCEPT !.pc = "first"]), "raiser",
                        Top.args, <<>>)
    /\ ret' = NoOutcome
    /\ UNCHANGED <<printerVars, proxyVars, attrVars, mem, calls, nexc, nops>>

\* relay does not catch: the exception passes through its frame.
RelayUnwind ==
    /\ frames # <<>>
    /\ Top.fn = "relay" /\ Top.pc = "first" /\ ret.kind = "exc"
    /\ frames' = Pop
    /\ UNCHANGED <<printerVars, proxyVars, attrVars, mem, ret, calls, nexc, nops>>

NextTrack ==
    \/ Call
    \/ TrackedEnter
    \/ TrackedReturn
    \/ TrackedRaise
    \/ BinomStart
    \/ BinomSecond
    \/ BinomStore
    \/ Raiser
    \/ RelayCall
    \/ RelayUnwind

SpecTrack == InitTrack /\ [][NextTrack]_vars

(***************************************************************************)
(* Attribute tracking: POV.track_attr(obj, *attrs) and the __setattr__     *)
(* hook it installs on the class.  The program has one class A with the    *)
(* instances x and y.  The repository holds two versions of the library,   *)
(* the module src/pov.py and the package src/pov; impl says which one the  *)
(* program imported.                                                       *)
(***************************************************************************)
\* isinstance(obj, type) as track_attr evaluates it.  The package rebinds
\* builtins.type to _POV_type when it is imported, and no ordinary class is
\* an instance of that metaclass.
IsType(obj) == obj = Class /\ impl = "pov.py"

\* cls = obj if isinstance(obj, type) else type(obj); type(A) is type.
ClsOf(obj) == IF IsType(obj) THEN obj ELSE IF obj = Class THEN "type" ELSE Class

\* cls._pov_attr_dict.get(t, {}).
Registered(reg, t) == IF t \in DOMAIN reg THEN reg[t] ELSE {}

\* The condition of the hook: the sets of the class and of obj, the target
\* of the call of track_attr that installed the hook.
HookTraces(reg, obj, attr) ==
    \/ All \in reg[Class]
    \/ attr \in reg[Class]
    \/ All \in Registered(reg, obj)
    \/ attr \in Registered(reg, obj)

\* The value the hook hands to the original __setattr__ when it traces:
\* src/pov.py copies a dict or a list (a POVDict is a dict, a POVList a
\* list) into a POVDict or a POVList named after the member, the package
\* wraps every value.
Intercepted(value, member) ==
    IF impl = "pov.py"
    THEN IF value.t \in {"dict", "POVDict"}
         THEN [t |-> "POVDict", v |-> value.v, name |-> member]
         ELSE IF value.t \in {"list", "POVList"}
         THEN [t |-> "POVList", v |-> value.v, name |-> member]
         ELSE value
    ELSE [t |-> "_POVObj", v |-> <<>>, target |-> value]

\* POVObj.__init__ of src/pov.py prints a block of its own when a dict or
\* a list is intercepted; _POVObj of the package prints nothing.
InterceptInfo(s, value, member) ==
    IF impl = "pov.py" /\ value.t \in {"dict", "POVDict", "list", "POVList"}
    THEN POVObj__init__(s, member,
                        IF value.t \in {"dict", "POVDict"} THEN "dict" ELSE "list",
                        CallerStack)
    ELSE s

\* _pov_new_setattr(self_, attr, value): the printer after the call and
\* the value stored by old_setattr.  The one print of the attr block
\* writes the member, ":=" and the rendering of the value.
pov_new_setattr(s, reg, obj, attr, value) ==
    IF HookTraces(reg, obj, attr)
    THEN LET member == obj \o "." \o attr
             id == s.nextId
             s1 == Printer__exit__(
                       Printer_print(Printer__enter__(s, "attr", CallerStack), id,
                           Around(member \o " := ", Rendering(value, <<>>), "")),
                       id)
         IN [ ps |-> InterceptInfo(s1, value, member),
              stored |-> Intercepted(value, member) ]
    ELSE [ps |-> s, stored |-> value]

\* track_attr(obj, *attrs): the printer, the registry of the class, the
\* target bound in the hook and the exception raised, if any.  The info
\* line names the attributes and the target; src/pov.py writes the tuple
\* ("all attrs",) for all, and has the test of the target inverted: it
\* writes the path of the class for an instance and the instance text of
\* the class object for a class.
track_attr(s, reg, hobj, obj, attrs) ==
    LET attr_msg == IF All \in attrs
                    THEN IF impl = "pov.py" THEN "('all attrs',)" ELSE "all attrs"
                    ELSE CHOOSE a \in attrs : TRUE
        by_type == IF impl = "pov.py" THEN ~IsType(obj) ELSE IsType(obj)
        target == IF by_type THEN POVPrint_type(ClsOf(obj)) ELSE obj
        s1 == WithBlock(s, "info", CallerStack,
                        <<"Tracking " \o attr_msg \o " for " \o target>>)
    IN IF ClsOf(obj) = "type"
       THEN [ps |-> s1, reg |-> reg, hobj |-> hobj, exc |-> "TypeError"]
       ELSE LET installed == hobj # NoObj
                reg1 == IF installed THEN reg ELSE (Class :> {})
            IN [ ps |-> s1,
                 reg |-> (obj :> (Registered(reg1, obj) \cup attrs)) @@ reg1,
                 hobj |-> IF installed THEN hobj ELSE obj,
                 exc |-> "" ]

(***************************************************************************)
(* The client of attribute tracking: it registers attributes for the       *)
(* class or for an instance, and assigns attributes of the instances.      *)
(* attrres is the last operation: the lines it wrote to the stream, the    *)
(* blocks it opened and the exception it raised.                           *)
(***************************************************************************)
AttrSets == {{"a"}, {"b"}, {All}}
AttrValues == {IntV(1), DictV, ListV}

InitAttr ==
    /\ impl \in Impls
    /\ PrinterStart /\ ListIdle /\ DictIdle /\ FrontIdle /\ TrackIdle
    /\ NoRegistry
    /\ nops = 0

\* The lines among the records written between printer states s0 and s1.
NewLines(s0, s1) ==
    Cardinality({i \in (Len(s0.out) + 1)..Len(s1.out) : s1.out[i].kind = "line"})

AttrRes(op, obj, attr, value, s1, exc) ==
    [ op |-> op, obj |-> obj, attr |-> attr, value |-> value,
      lines |-> NewLines(PState, s1), blocks |-> s1.nextId - nextId,
      exc |-> exc ]

\* pov.track_attr(obj, *attrs)
TrackAttr ==
    /\ nops < MaxAttrOps
    /\ \E obj \in {Class} \cup Instances, attrs \in AttrSets :
          LET r == track_attr(PState, attr_dict, hook_obj, obj, attrs)
          IN /\ PSet(r.ps)
             /\ attr_dict' = r.reg
             /\ hook_obj' = r.hobj
             /\ attrres' = AttrRes("track_attr", obj, "", NoneV, r.ps, r.exc)
    /\ nops' = nops + 1
    /\ UNCHANGED <<proxyVars, trackVars, impl, store>>

\* inst.attr = value: the hook when the class has one, object.__setattr__
\* otherwise.
SetAttr ==
    /\ nops < MaxAttrOps
    /\ \E inst \in Instances, attr \in AttrNames, value \in AttrValues :
          LET r == IF hook_obj = NoObj THEN [ps |-> PState, stored |-> value]
                   ELSE pov_new_setattr(PState, attr_dict, hook_obj, attr, value)
          IN /\ PSet(r.ps)
             /\ store' = [store EXCEPT ![inst][attr] = r.stored]
             /\ attrres' = AttrRes("setattr", inst, attr, value, r.ps, "")
    /\ nops' = nops + 1
    /\ UNCHANGED <<proxyVars, trackVars, impl, attr_dict, hook_obj>>

NextAttr == TrackAttr \/ SetAttr

SpecAttr == InitAttr /\ [][NextAttr]_vars

(***************************************************************************)
(* Operations made through a tracked attribute.  An operation is a record  *)
(* [name, key, val]; native gives what Python does for it on a plain       *)
(* list, dict or int: the result of the call and the value afterwards.     *)
(* The elements of a list are integers, the keys and values of a dict are  *)
(* Python values.                                                          *)
(***************************************************************************)
Op(name, key, val) == [name |-> name, key |-> key, val |-> val]

\* An iterator or a view over a container (iter, items, keys, values).
ViewV(kind) == [t |-> kind, v |-> <<>>]

list_native(c, op) ==
    LET via(r) == [res |-> r.res, value |-> [c EXCEPT !.v = r.list]]
        same(res) == [res |-> res, value |-> c]
    IN CASE op.name = "__setitem__" -> via(list___setitem__(c.v, op.key, op.val))
         [] op.name = "__delitem__" -> via(list___delitem__(c.v, op.key))
         [] op.name = "append" -> via(list_append(c.v, op.val))
         [] op.name = "clear" -> via(list_clear(c.v))
         [] op.name = "__iadd__" ->
                via(list___iadd__(c.v, [iterable |-> TRUE, items |-> <<op.val>>]))
         [] op.name = "__imul__" ->
                via(list___imul__(c.v, [isint |-> TRUE, n |-> op.val]))
         [] op.name = "__getitem__" ->
                same(IF InRange(c.v, op.key)
                     THEN Returned(IntV(c.v[Norm(c.v, op.key) + 1]))
                     ELSE Raised("IndexError"))
         [] op.name = "__len__" -> same(Returned(IntV(Len(c.v))))
         [] op.name = "__iter__" -> same(Returned(ViewV("list_iterator")))
         [] OTHER -> same(Raised("AttributeError"))

dict_native(c, op) ==
    LET via(r) == [res |-> r.res, value |-> [c EXCEPT !.v = r.dict]]
        same(res) == [res |-> res, value |-> c]
    IN CASE op.name = "__setitem__" -> via(dict___setitem__(c.v, op.key, op.val))
         [] op.name = "__delitem__" -> via(dict___delitem__(c.v, op.key))
         [] op.name = "pop" -> via(dict_pop(c.v, op.key, FALSE, NoneV))
         [] op.name = "setdefault" -> via(dict_setdefault(c.v, op.key, op.val))
         [] op.name = "clear" -> via(dict_clear(c.v))
         [] op.name = "__getitem__" ->
                same(IF Has(c.v, op.key) THEN Returned(Lookup(c.v, op.key))
                     ELSE Raised("KeyError"))
         [] op.name = "get" ->
                same(Returned(IF Has(c.v, op.key) THEN Lookup(c.v, op.key)
                              ELSE NoneV))
         [] op.name = "__len__" -> same(Returned(IntV(Len(c.v))))
         [] op.name = "__iter__" -> same(Returned(ViewV("dict_keyiterator")))
         [] op.name \in {"items", "keys", "values"} ->
                same(Returned(ViewV("dict_" \o op.name)))
         [] OTHER -> same(Raised("AttributeError"))

\* An int is immutable: += and *= give a new int and leave the old one.
int_native(c, op) ==
    CASE op.name = "__iadd__" ->
             [res |-> Returned(IntV(c.v[1] + op.val)), value |-> c]
      [] op.name = "__imul__" ->
             [res |-> Returned(IntV(c.v[1] * op.val)), value |-> c]
      [] OTHER -> [res |-> Raised("TypeError"), value |-> c]

native(c, op) ==
    IF c.t = "list" THEN list_native(c, op)
    ELSE IF c.t = "dict" THEN dict_native(c, op)
    ELSE IF c.t = "int" THEN int_native(c, op)
    ELSE [res |-> Raised("TypeError"), value |-> c]

\* The plain value behind whatever an attribute holds: the list or dict a
\* container proxy is, the target a generic proxy wraps.
AsNative(p) ==
    IF p.t = "_POVObj" THEN p.target
    ELSE IF p.t = "POVList" THEN [t |-> "list", v |-> p.v]
    ELSE IF p.t = "POVDict" THEN [t |-> "dict", v |-> p.v]
    ELSE p

(***************************************************************************)
(* _POVObj (src/pov/_impl.py): the generic proxy of the package.  A proxy  *)
(* is [t |-> "_POVObj", target |-> the wrapped value].  Each operator      *)
(* gives the printer after the call, the proxy after it and the result.    *)
(***************************************************************************)
POVObj(target) == [t |-> "_POVObj", v |-> <<>>, target |-> target]

\* self._pov_subobj(res, name) around the result of a call that returned.
POVObj_subobj(res) == IF res.exc = "" THEN Returned(POVObj(res.val)) ELSE res

\* The one line an intercepted operation prints, in a block of its own.
POVObj_line(s, text) == WithBlock(s, "attr", CallerStack, <<text>>)

POVObj___getitem__(s, p, op) ==
    [ps |-> s, stored |-> p, res |-> POVObj_subobj(native(p.target, op).res)]

POVObj___setitem__(s, p, op) ==
    LET r == native(p.target, op)
    IN [ps |-> POVObj_line(s, "[] ="), stored |-> POVObj(r.value), res |-> r.res]

POVObj___delitem__(s, p, op) ==
    LET r == native(p.target, op)
    IN [ps |-> POVObj_line(s, "del []"), stored |-> POVObj(r.value), res |-> r.res]

POVObj___len__(s, p, op) ==
    [ps |-> s, stored |-> p, res |-> native(p.target, op).res]

POVObj___iter__(s, p, op) ==
    [ps |-> s, stored |-> p, res |-> POVObj_subobj(native(p.target, op).res)]

\* x.m(...): __getattr__ reads the method with getattr(target, m, None)
\* and wraps it, __call__ prints the call, calls the method and wraps what
\* it returns unless that is None.  For a name the target does not have
\* the wrapped value is None, and calling None raises TypeError.
POVObj___call__(s, p, op) ==
    LET r == native(p.target, op)
        got_None == r.res.exc = "AttributeError"
        res == IF got_None THEN Raised("TypeError") ELSE r.res
    IN [ ps |-> POVObj_line(s, "." \o op.name \o "()"),
         stored |-> POVObj(r.value),
         res |-> IF res.exc = "" /\ res.val # NoneV
                 THEN POVObj_subobj(res) ELSE res ]

\* The target after "self._pov_target += other" (or *=): the list itself,
\* extended, or the new number.
Rebound(r) ==
    IF r.res.exc # "" \/ r.res.val = SelfV THEN r.value ELSE r.res.val

\* __iadd__ and __imul__: the line, the operation on the target, and no
\* return statement.
POVObj_inplace(s, p, op) ==
    LET r == native(p.target, op)
    IN [ ps |-> POVObj_line(s, op.name),
         stored |-> POVObj(Rebound(r)),
         res |-> IF r.res.exc = "" THEN Returned(NoneV) ELSE r.res ]

POVObj_apply(s, p, op) ==
    CASE op.name = "__getitem__" -> POVObj___getitem__(s, p, op)
      [] op.name = "__setitem__" -> POVObj___setitem__(s, p, op)
      [] op.name = "__delitem__" -> POVObj___delitem__(s, p, op)
      [] op.name = "__len__" -> POVObj___len__(s, p, op)
      [] op.name = "__iter__" -> POVObj___iter__(s, p, op)
      [] op.name \in {"__iadd__", "__imul__"} -> POVObj_inplace(s, p, op)
      [] OTHER -> POVObj___call__(s, p, op)

(***************************************************************************)
(* The proxies of src/pov.py reached through an attribute.  POVDict.get    *)
(* prints when the key is missing; every other read is inherited from      *)
(* dict or list.                                                           *)
(***************************************************************************)
\* A faulty get, which prints on every call.
POVDict_get_always(d, key, default) ==
    DTraced(DRet(IF Has(d, key) THEN Lookup(d, key) ELSE default, d), <<"get">>)

POVDict_get(d, key, default) ==
    LET r == DRet(IF Has(d, key) THEN Lookup(d, key) ELSE default, d)
    IN IF ~Has(d, key) THEN DTraced(r, <<"get missed">>) ELSE DUntraced(r)

\* The printer after a method of POVList or POVDict gave t.
Printed(s, t) ==
    IF t.entered THEN WithBlock(s, "attr", CallerStack, t.lines) ELSE s

POVList_apply(s, p, op) ==
    LET n == list_native(AsNative(p), op)
        t == CASE op.name = "__setitem__" -> POVList___setitem__(p.v, op.key, op.val)
               [] op.name = "__delitem__" -> POVList___delitem__(p.v, op.key)
               [] op.name = "append" -> POVList_append(p.v, op.val)
               [] op.name = "clear" -> POVList_clear(p.v)
               [] op.name = "__iadd__" ->
                      POVList___iadd__(p.v, [iterable |-> TRUE, items |-> <<op.val>>])
               [] op.name = "__imul__" ->
                      POVList___imul__(p.v, [isint |-> TRUE, n |-> op.val])
               [] OTHER -> Untraced([res |-> n.res, list |-> n.value.v])
    IN [ps |-> Printed(s, t), stored |-> [p EXCEPT !.v = t.list], res |-> t.res]

POVDict_apply(s, p, op) ==
    LET n == dict_native(AsNative(p), op)
        t == CASE op.name = "__setitem__" -> POVDict___setitem__(p.v, op.key, op.val)
               [] op.name = "__delitem__" -> POVDict___delitem__(p.v, op.key)
               [] op.name = "pop" -> POVDict_pop(p.v, op.key, FALSE, NoneV)
               [] op.name = "setdefault" -> POVDict_setdefault(p.v, op.key, op.val)
               [] op.name = "clear" -> POVDict_clear(p.v)
               [] op.name = "get" -> POVDict_get(p.v, op.key, NoneV)
               [] OTHER -> DUntraced([res |-> n.res, dict |-> n.value.v])
    IN [ps |-> Printed(s, t), stored |-> [p EXCEPT !.v = t.dict], res |-> t.res]

\* An operation on whatever the attribute holds.
Through(s, p, op) ==
    IF p.t = "_POVObj" THEN POVObj_apply(s, p, op)
    ELSE IF p.t = "POVList" THEN POVList_apply(s, p, op)
    ELSE IF p.t = "POVDict" THEN POVDict_apply(s, p, op)
    ELSE LET r == native(p, op)
         IN [ps |-> s, stored |-> r.value, res |-> r.res]

(***************************************************************************)
(* The client of a tracked container: it registers attribute a for the     *)
(* class or for instance x, assigns x.a, and then reads x.a and operates   *)
(* on what the read returns.  attrres is the last operation: besides the   *)
(* lines and blocks it wrote, the operation, what x.a held before it, its  *)
(* result, what Python gives for the same operation on the plain value,    *)
(* and the number of mutations made since x.a was last assigned.           *)
(***************************************************************************)
Holder == "x"
Held == "a"
ProxyValues ==
    { [t |-> "dict", v |-> <<Item(IntV(1), IntV(5))>>],
      [t |-> "list", v |-> <<2>>],
      IntV(1) }
Containers == {"dict", "list"}
ListMutations ==
    { Op("__setitem__", 0, 1), Op("__setitem__", 1, 1), Op("__delitem__", 0, None),
      Op("append", None, 1), Op("clear", None, None) }
DictMutations ==
    { Op("__setitem__", IntV(2), IntV(6)), Op("__delitem__", IntV(1), NoneV),
      Op("pop", IntV(1), NoneV), Op("setdefault", IntV(2), IntV(6)),
      Op("clear", NoneV, NoneV) }
ListReads ==
    { Op("__getitem__", 0, None), Op("__len__", None, None),
      Op("__iter__", None, None) }
DictReads ==
    { Op("__getitem__", IntV(1), NoneV), Op("get", IntV(1), NoneV),
      Op("get", IntV(2), NoneV), Op("__len__", NoneV, NoneV),
      Op("__iter__", NoneV, NoneV), Op("items", NoneV, NoneV),
      Op("keys", NoneV, NoneV), Op("values", NoneV, NoneV) }
InPlaceOps == { Op("__iadd__", None, 1), Op("__imul__", None, 2) }

Mutations(c) == IF c.t = "list" THEN ListMutations ELSE DictMutations
Reads(c) == IF c.t = "list" THEN ListReads ELSE DictReads

InitProxy ==
    /\ impl \in Impls
    /\ PrinterStart /\ ListIdle /\ DictIdle /\ FrontIdle /\ TrackIdle
    /\ NoRegistry
    /\ nops = 0

\* Mutations made through x.a since it was last assigned.
Nth == IF attrres.op \in {"mutate", "read", "inplace"} THEN attrres.nth ELSE 0

ProxyRes(kind, op, before, r, s1, nth) ==
    [ op |-> kind, obj |-> Holder, attr |-> Held, value |-> NoneV,
      lines |-> NewLines(PState, s1), blocks |-> s1.nextId - nextId,
      exc |-> r.res.exc,
      call |-> op, before |-> before, res |-> r.res,
      native |-> native(AsNative(before), op), nth |-> nth ]

\* pov.track_attr(A, "a") or pov.track_attr(x, "a"), once
WatchAttr ==
    /\ nops < MaxProxyOps
    /\ hook_obj = NoObj
    /\ \E obj \in {Class, Holder} :
          LET r == track_attr(PState, attr_dict, hook_obj, obj, {Held})
          IN /\ PSet(r.ps)
             /\ attr_dict' = r.reg
             /\ hook_obj' = r.hobj
             /\ attrres' = AttrRes("track_attr", obj, "", NoneV, r.ps, r.exc)
    /\ nops' = nops + 1
    /\ UNCHANGED <<proxyVars, trackVars, impl, store>>

\* x.a = value
AssignAttr ==
    /\ nops < MaxProxyOps
    /\ \E value \in ProxyValues :
          LET r == IF hook_obj = NoObj THEN [ps |-> PState, stored |-> value]
                   ELSE pov_new_setattr(PState, attr_dict, hook_obj, Held, value)
          IN /\ PSet(r.ps)
             /\ store' = [store EXCEPT ![Holder][Held] = r.stored]
             /\ attrres' = AttrRes("setattr", Holder, Held, value, r.ps, "")
    /\ nops' = nops + 1
    /\ UNCHANGED <<proxyVars, trackVars, impl, attr_dict, hook_obj>>

\* The step of the client whose operation op on what x.a held, p, gave r.
ProxyStep(kind, op, p, r, nth) ==
    /\ PSet(r.ps)
    /\ store' = [store EXCEPT ![Holder][Held] = r.stored]
    /\ attrres' = ProxyRes(kind, op, p, r, r.ps, nth)
    /\ nops' = nops + 1
    /\ UNCHANGED <<proxyVars, trackVars, impl, attr_dict, hook_obj>>

\* x.a[k] = v, del x.a[k], x.a.append(v), x.a.pop(k), x.a.clear()
MutateAttr ==
    /\ nops < MaxProxyOps
    /\ AsNative(store[Holder][Held]).t \in Containers
    /\ \E op \in Mutations(AsNative(store[Holder][Held])) :
          ProxyStep("mutate", op, store[Holder][Held],
                    Through(PState, store[Holder][Held], op), Nth + 1)

\* x.a[k], x.a.get(k), len(x.a), iter(x.a), x.a.items(), ...
ReadAttr ==
    /\ nops < MaxProxyOps
    /\ AsNative(store[Holder][Held]).t \in Containers
    /\ \E op \in Reads(AsNative(store[Holder][Held])) :
          ProxyStep("read", op, store[Holder][Held],
                    Through(PState, store[Holder][Held], op), Nth)

\* The second half of x.a += y and x.a *= n: what the in-place method
\* returned, r, is assigned to x.a, through the hook when the class has
\* one.  A method that raised leaves the attribute bound as it was.
Rebind(r, reg, hobj) ==
    IF r.res.exc # "" THEN r
    ELSE LET value == IF r.res.val = SelfV THEN r.stored ELSE r.res.val
             h == IF hobj = NoObj THEN [ps |-> r.ps, stored |-> value]
                  ELSE pov_new_setattr(r.ps, reg, hobj, Held, value)
         IN [ps |-> h.ps, stored |-> h.stored, res |-> r.res]

\* x.a += y and x.a *= n
InPlaceAttr ==
    /\ nops < MaxProxyOps
    /\ AsNative(store[Holder][Held]).t \in {"list", "int"}
    /\ \E op \in InPlaceOps :
          ProxyStep("inplace", op, store[Holder][Held],
                    Rebind(Through(PState, store[Holder][Held], op),
                           attr_dict, hook_obj),
                    Nth + 1)

NextProxy == WatchAttr \/ AssignAttr \/ MutateAttr \/ ReadAttr \/ InPlaceAttr

SpecProxy == InitProxy /\ [][NextProxy]_vars

(***************************************************************************)
(* POV.track_memfun: one method of class A is replaced through a           *)
(* __getattribute__ hook installed on the class by the first call.         *)
(* _pov_fun_dict maps a method name to its traced replacement; the model   *)
(* keeps of the replacement the target its name was built from (label)     *)
(* and, as history, every target the name was registered for (targets).    *)
(* The instances x and z of the client compare equal (its class defines    *)
(* __eq__ on a field they agree on); y differs from both.                  *)
(***************************************************************************)
MemInstances == {"x", "y", "z"}
Methods == {"f", "g"}

\* self_ == obj, with the __eq__ of the client's class.
Eq(a, b) == a = b \/ {a, b} = {"x", "z"}

\* "with POVPrint.info() as printer: printer.print('Tracking ...')"
TrackingInfo(s, what) == WithBlock(s, "info", CallerStack, <<"Tracking " \o what>>)

\* track_memfun(obj, function): the printer, the registry, the target bound
\* in the hook and the exception raised, if any.  In the package type is
\* rebound, so a class is taken for an instance of type, whose __dict__ has
\* no such key: KeyError, before anything is installed or written.
\* Otherwise the hook is installed if the class has none, and
\* self.track(func, name=funcname) writes the info block "Tracking function
\* <funcname>" on every registration, funcname being the path of the class
\* or the instance text of the target, a dot and the name of the method.
track_memfun(s, reg, hobj, obj, function) ==
    IF ClsOf(obj) = "type"
    THEN [ps |-> s, reg |-> reg, hobj |-> hobj, exc |-> "KeyError"]
    ELSE LET old == IF function \in DOMAIN reg THEN reg[function].targets ELSE {}
             funcname == (IF IsType(obj) THEN POVPrint_type(obj) ELSE obj)
                           \o "." \o function
         IN [ ps |-> TrackingInfo(s, "function " \o funcname),
              reg |-> (function :> [label |-> obj, targets |-> old \cup {obj}])
                      @@ reg,
              hobj |-> IF hobj = NoObj THEN obj ELSE hobj,
              exc |-> "" ]

\* _pov_new_getattribute(self_, attr): whether the lookup gives the traced
\* replacement ("traced") or what old_getattribute gives ("original").
pov_new_getattribute(reg, hobj, self_, attr) ==
    IF hobj = NoObj THEN "original"
    ELSE IF attr \notin DOMAIN reg \/ ~(IsType(hobj) \/ Eq(self_, hobj))
         THEN "original"
         ELSE "traced"

(***************************************************************************)
(* The client of track_memfun: it registers methods for the class or for   *)
(* an instance and looks methods up on the instances.                      *)
(***************************************************************************)
InitFront ==
    /\ impl \in Impls
    /\ PrinterStart /\ ListIdle /\ DictIdle /\ FrontIdle /\ TrackIdle
    /\ NoRegistry
    /\ nops = 0

\* pov.track_memfun(obj, function)
TrackMemfun ==
    /\ nops < MaxMemOps
    /\ \E obj \in {Class} \cup MemInstances, function \in Methods :
          LET r == track_memfun(PState, fun_dict, fun_obj, obj, function)
          IN /\ PSet(r.ps)
             /\ fun_dict' = r.reg
             /\ fun_obj' = r.hobj
             /\ front' = [op |-> "track_memfun", self |-> obj, attr |-> function,
                          result |-> "", exc |-> r.exc]
    /\ nops' = nops + 1
    /\ UNCHANGED <<listVars, dictVars, trackVars, attrVars, envVars>>

\* inst.attr, for a method name
LookupMethod ==
    /\ nops < MaxMemOps
    /\ \E inst \in MemInstances, attr \in Methods :
          front' = [op |-> "lookup", self |-> inst, attr |-> attr,
                    result |-> pov_new_getattribute(fun_dict, fun_obj, inst, attr),
                    exc |-> ""]
    /\ nops' = nops + 1
    /\ UNCHANGED <<printerVars, listVars, dictVars, trackVars, attrVars, envVars,
                   fun_dict, fun_obj>>

NextMemfun == TrackMemfun \/ LookupMethod

SpecMemfun == InitFront /\ [][NextMemfun]_vars

(***************************************************************************)
(* POV.track applied to a class.  The client's class A has a static        *)
(* method s and a method m that take any number of arguments, each         *)
(* returning the number of arguments it received; the client tracks the   *)
(* class, creates one instance through what track returned, and calls s    *)
(* and m on the instance and s on what track returned.  Arguments are      *)
(* integers.                                                               *)
(***************************************************************************)
\* The instance c of the client, and the values of its integer arguments.
TheInstance == ObjV(Class, "c")
IntVs(args) == [i \in 1 .. Len(args) |-> IntV(args[i])]

\* What "for arg in args: printer.print('\t', ...)" prints, one text per
\* argument: in src/pov.py the tab and POVPrint.value(arg), one physical
\* line; in the package the tab, the rendering and end=',\n', whose split
\* has an empty last line.
ArgTexts(args) ==
    [i \in 1 .. Len(args) |->
        IF impl = "pov.py" THEN <<"\t " \o POVPrint_value(args[i])>>
        ELSE ArgText(args[i], <<>>)]

\* The block of _pov_tracked_function for a call that returned res: the
\* header, one print per argument, and the result line appended with the
\* style ok.
TracedCall(s, name, args, res) ==
    LET id == s.nextId
        texts == ArgTexts(args)
        printed[i \in 0 .. Len(texts)] ==
            IF i = 0
            THEN Printer_print(Printer__enter__(s, "func", CallerStack), id,
                               <<name \o "(">>)
            ELSE Printer_print(printed[i - 1], id, texts[i])
    IN Printer__exit__(
          Printer_append(printed[Len(texts)], id, "ok",
                         Around(") => ", Rendering(res, <<>>), "")), id)

\* pov.track(A) and the creation of an instance c.  In src/pov.py the
\* class branch rebuilds the class with every callable member wrapped.  In
\* the package type is rebound, isinstance(target_, type) is False, and the
\* class is wrapped as a function: the instance is made by a traced call
\* of the original class and is a plain A.
track_class(s) ==
    IF impl = "pov.py"
    THEN TrackingInfo(TrackingInfo(TrackingInfo(s, "class A"), "function A.s"),
                      "function A.m")
    ELSE TracedCall(TrackingInfo(s, "function A"), "A", <<>>, TheInstance)

\* args[1:]
Rest(args) == IF args = <<>> THEN <<>> ELSE Tail(args)

\* A faulty wrapper of a static method, which strips nothing.
static_received_all(via, args) == IF via = "instance" THEN <<0>> \o args ELSE args

\* What the original static method receives from the wrapper in the class
\* body of src/pov.py: the wrapper is a plain function, so a call through
\* the instance binds the instance in front of the arguments (written 0)
\* and a call through the class binds nothing; the first of these is
\* stripped.
static_received(via, args) ==
    Rest(IF via = "instance" THEN <<0>> \o args ELSE args)

\* c.s(...) or T.s(...): the printer after the call, whether the
\* original ran, the arguments it received, what the call returned and the
\* exception raised.
call_static(s, via, args) ==
    IF impl = "pov.py"
    THEN LET got == static_received(via, args)
         IN [ ps |-> TracedCall(s, "A.s<static>", IntVs(got), IntV(Len(got))),
              invoked |-> TRUE, passed |-> got, res |-> Returned(IntV(Len(got))) ]
    ELSE IF via = "instance"
         THEN [ ps |-> s, invoked |-> TRUE, passed |-> args,
                res |-> Returned(IntV(Len(args))) ]
         ELSE [ ps |-> s, invoked |-> FALSE, passed |-> <<>>,
                res |-> Raised("AttributeError") ]

\* c.m(...): the method of the instance.
call_method(s, args) ==
    [ ps |-> IF impl = "pov.py"
             THEN TracedCall(s, "A.m", <<TheInstance>> \o IntVs(args),
                             IntV(Len(args)))
             ELSE s,
      invoked |-> TRUE, passed |-> args, res |-> Returned(IntV(Len(args))) ]

ArgLists == {<<>>, <<7>>, <<7, 8>>}
Vias == {"instance", "class"}

\* T = pov.track(A); c = T()
TrackClass ==
    /\ front = NoFront
    /\ PSet(track_class(PState))
    /\ front' = [op |-> "track"]
    /\ UNCHANGED <<listVars, dictVars, trackVars, attrVars, fun_dict, fun_obj,
                   envVars, nops>>

\* The step of a call whose outcome is r.
CallStep(member, via, args, r) ==
    /\ PSet(r.ps)
    /\ front' = [op |-> member, via |-> via, args |-> args, invoked |-> r.invoked,
                 passed |-> r.passed, res |-> r.res]
    /\ nops' = nops + 1
    /\ UNCHANGED <<listVars, dictVars, trackVars, attrVars, fun_dict, fun_obj, envVars>>

\* c.s(...), T.s(...)
CallStatic ==
    /\ front # NoFront
    /\ nops < MaxMemberCalls
    /\ \E via \in Vias, args \in ArgLists :
          CallStep("s", via, args, call_static(PState, via, args))

\* c.m(...)
CallMethod ==
    /\ front # NoFront
    /\ nops < MaxMemberCalls
    /\ \E args \in ArgLists :
          CallStep("m", "instance", args, call_method(PState, args))

NextStatic == TrackClass \/ CallStatic \/ CallMethod

SpecStatic == InitFront /\ [][NextStatic]_vars

(***************************************************************************)
(* POVPrint.value: the rendering of a value under a depth limit.  The      *)
(* values are the objects of a small heap: an object is an int or a list   *)
(* of objects of the heap, so that a list may hold itself.  The recursion  *)
(* of the interpreter is bounded: a call made with no frame left raises    *)
(* RecursionError.                                                         *)
(***************************************************************************)
MaxNodes == 3        \* objects of the heap
MaxDepth == 2        \* greatest depth limit given to detail
Widths == {0, 1, 2}
Nodes == 1 .. MaxNodes
RecursionLimit == MaxNodes + MaxNodes + 2
global_depthlimit == 2

IntObj == [k |-> "int", items |-> <<>>]
ListObj(items) == [k |-> "list", items |-> items]
Objects == {IntObj} \cup {ListObj(s) : s \in UNION {[1 .. w -> Nodes] : w \in Widths}}
Heaps == [Nodes -> Objects]

RECURSIVE short_repr(_, _, _)
short_repr(g, n, left) ==
    IF left = 0 THEN "RecursionError"
    ELSE IF g[n].k = "int" THEN "True"
    ELSE IF Len(g[n].items) = 0 THEN "True"
    ELSE IF Len(g[n].items) = 1 THEN short_repr(g, g[n].items[1], left - 1)
    ELSE "False"

\* all(short_repr(x) for x in v), from the element at position i on
RECURSIVE all_short(_, _, _, _)
all_short(g, items, i, left) ==
    IF i > Len(items) THEN "True"
    ELSE IF short_repr(g, items[i], left) = "True"
         THEN all_short(g, items, i + 1, left)
         ELSE short_repr(g, items[i], left)

Rendered(k, n, tab, kids) == [exc |-> "", k |-> k, node |-> n, tab |-> tab, kids |-> kids]
RenderRaised == [exc |-> "RecursionError", k |-> "", node |-> 0, tab |-> "", kids |-> <<>>]

\* The rendering of the elements: kids are the renderings, tab the outcome
\* of the choice of the separator.
value_list(n, tab, kids) ==
    IF tab = "RecursionError" \/ \E i \in DOMAIN kids : kids[i].exc # ""
    THEN RenderRaised
    ELSE Rendered("list", n, IF tab = "True" THEN " " ELSE "deeptab", kids)

\* The test that stops the descent: is the object at n rendered as an
\* opaque placeholder?  "RecursionError" when the test itself fails.
value_stops(g, n, depthlimit, left) ==
    IF depthlimit # 0 THEN "False"
    ELSE IF short_repr(g, n, left - 1) = "RecursionError" THEN "RecursionError"
    ELSE IF short_repr(g, n, left - 1) = "True" THEN "False" ELSE "True"

RECURSIVE value(_, _, _, _)
value(g, n, depthlimit, left) ==
    IF left = 0 THEN RenderRaised
    ELSE IF g[n].k = "int" THEN Rendered("const", n, "", <<>>)
    ELSE IF value_stops(g, n, depthlimit, left) = "RecursionError" THEN RenderRaised
    ELSE IF value_stops(g, n, depthlimit, left) = "True"
         THEN Rendered("instance", n, "", <<>>)
    ELSE IF Len(g[n].items) = 0 THEN Rendered("expr", n, "", <<>>)
    ELSE value_list(n,
                    IF depthlimit - 1 = 0 THEN "True"
                    ELSE all_short(g, g[n].items, 1, left - 1),
                    [i \in 1 .. Len(g[n].items) |->
                        value(g, g[n].items[i], depthlimit - 1, left - 1)])

SetMax(S) == CHOOSE m \in S : \A x \in S : x <= m

\* The levels of nesting a rendering has entered below its value.
RECURSIVE Levels(_)
Levels(rv) ==
    IF rv.k # "list" THEN 0
    ELSE 1 + SetMax({Levels(rv.kids[i]) : i \in DOMAIN rv.kids})

\* The renderings d levels below the value are placeholders, constants or absent.
RECURSIVE Exhausted(_, _)
Exhausted(rv, d) ==
    IF d = 0 THEN rv.k \in {"const", "instance"}
    ELSE \A i \in DOMAIN rv.kids : Exhausted(rv.kids[i], d - 1)

Depths == -1 .. MaxDepth

InitRender ==
    /\ impl = "pov/_impl.py"
    /\ PrinterStart /\ ListIdle /\ DictIdle /\ TrackIdle
    /\ NoRegistry
    /\ fun_dict = <<>> /\ fun_obj = NoObj
    /\ heap \in Heaps
    /\ global_id_range = AllIds
    /\ front = [op |-> "init", depthlimit |-> global_depthlimit, root |-> 0,
                out |-> RenderRaised]
    /\ nops = 0

\* pov.detail(depth)
Detail ==
    /\ \E depth \in Depths :
          front' = [op |-> "detail", depthlimit |-> depth, root |-> 0,
                    out |-> RenderRaised]
    /\ UNCHANGED <<printerVars, listVars, dictVars, trackVars, attrVars, fun_dict,
                   fun_obj, envVars, nops>>

\* The step of a rendering whose outcome is rv.
RenderStep(n, rv) ==
    /\ front' = [op |-> "value", depthlimit |-> front.depthlimit, root |-> n,
                 out |-> rv]
    /\ UNCHANGED <<printerVars, listVars, dictVars, trackVars, attrVars, fun_dict,
                   fun_obj, envVars, nops>>

\* self._printvalue(value)
PrintValue ==
    \E n \in Nodes : RenderStep(n, value(heap, n, front.depthlimit, RecursionLimit))

NextRender == Detail \/ PrintValue

SpecRender == InitRender /\ [][NextRender]_vars

(***************************************************************************)
(* POV.view and POV.check.  An expression is a string, evaluated in the    *)
(* context the POV object captured, or a value given as it is.  The        *)
(* context of the client has a function kb that raises KeyboardInterrupt;  *)
(* y is not bound.                                                         *)
(***************************************************************************)
MaxExprs == 2        \* expressions given to one call of view or check

StrExpr(src) == [isstr |-> TRUE, src |-> src, val |-> NoneV]
Literal(v) == [isstr |-> FALSE, src |-> "", val |-> v]

\* The frame of the client that calls the front end: its globals and its
\* locals.  The function of the client has a local v that shadows the
\* global v.
f_globals == [x |-> 1, z |-> 0, v |-> 1]
f_locals == [v |-> 2]

\* POV.__init__: self._context = dict(frame.f_locals, **frame.f_globals)
context == f_globals @@ f_locals

\* eval(expr, self._context)
eval(src) ==
    IF src \in DOMAIN context THEN Returned(IntV(context[src]))
    ELSE IF src = "kb()" THEN Raised("KeyboardInterrupt")
    ELSE IF src = "exit(0)" THEN Raised("SystemExit")
    ELSE Raised("NameError")

\* str(exc) of the exception eval(src) raises: the message of a NameError
\* (the other exceptions are raised with no argument).
str_exc(src) ==
    IF eval(src).exc = "NameError" THEN "name '" \o src \o "' is not defined"
    ELSE ""

\* The exception classes that derive from BaseException and not from Exception.
NotExceptions == {"KeyboardInterrupt", "SystemExit", "GeneratorExit"}

\* An except clause that catches everything.
except_BaseException(cls) == TRUE

\* "except Exception": the classes the clause catches.
except_Exception(cls) == cls \notin NotExceptions

\* bool(val)
Truthy(val) == val \notin {IntV(0), NoneV}

\* The outcome of a front-end call: the printer after it, the lines its
\* block held when it closed, the exception that left the call and, for
\* SystemExit, the status.
EvalOutcome(s, id, exc, status) ==
    [ps |-> Printer__exit__(s, id), lines |-> s.blocks[id].lines, exc |-> exc,
     status |-> status]

\* The body of the for statement of view from expression i on.
RECURSIVE view_body(_, _, _, _)
view_body(s, id, exprs, i) ==
    IF i > Len(exprs) THEN EvalOutcome(s, id, "", 0)
    ELSE IF ~exprs[i].isstr
         THEN view_body(Printer_append(s, id, "ok",
                            Around(IF impl = "pov.py" THEN "" ELSE "$ => ",
                                   Rendering(exprs[i].val, <<>>), "")),
                        id, exprs, i + 1)
    ELSE IF eval(exprs[i].src).exc = ""
         THEN view_body(Printer_append(s, id, "ok",
                            Around(exprs[i].src \o " => ",
                                   Rendering(eval(exprs[i].src).val, <<>>), "")),
                        id, exprs, i + 1)
    ELSE IF except_Exception(eval(exprs[i].src).exc)
         THEN view_body(Printer_append(s, id, "bad",
                            <<exprs[i].src \o " >< " \o exception(eval(exprs[i].src).exc,
                                   str_exc(exprs[i].src))>>),
                        id, exprs, i + 1)
    ELSE EvalOutcome(s, id, eval(exprs[i].src).exc, 0)

\* POV.view(*exprs): src/pov.py prints a title line first.
view(s, exprs) ==
    IF impl = "pov.py"
    THEN view_body(Printer_print(Printer__enter__(s, "ok", CallerStack), s.nextId,
                                 <<"Expression view:">>),
                   s.nextId, exprs, 1)
    ELSE view_body(Printer__enter__(s, "ok", CallerStack), s.nextId, exprs, 1)

\* The for statement of check from expression i on; all_true is the flag.
\* The outcome carries the flag in the field status until check_end.
RECURSIVE check_body(_, _, _, _, _)
check_body(s, id, exprs, i, all_true) ==
    IF i > Len(exprs) THEN [s |-> s, all_true |-> all_true, exc |-> ""]
    ELSE IF ~exprs[i].isstr
         THEN check_body(Printer_append(s, id,
                             IF Truthy(exprs[i].val) THEN "ok" ELSE "warn",
                             Rendering(exprs[i].val, <<>>)),
                         id, exprs, i + 1, all_true /\ Truthy(exprs[i].val))
    ELSE IF eval(exprs[i].src).exc = ""
         THEN check_body(Printer_append(s, id,
                             IF Truthy(eval(exprs[i].src).val) THEN "ok" ELSE "warn",
                             Around(exprs[i].src \o " => ",
                                    Rendering(eval(exprs[i].src).val, <<>>), "")),
                         id, exprs, i + 1, all_true /\ Truthy(eval(exprs[i].src).val))
    ELSE IF except_Exception(eval(exprs[i].src).exc)
         THEN check_body(Printer_append(s, id, "bad",
                             <<exprs[i].src \o " >< " \o exception(eval(exprs[i].src).exc,
                                   str_exc(exprs[i].src))>>),
                         id, exprs, i + 1, FALSE)
    ELSE [s |-> s, all_true |-> all_true, exc |-> eval(exprs[i].src).exc]

\* A faulty test, which exits on every failed assertion.
check_exits_always(all_true, exit_on_failure) == ~all_true

\* "if not all_true: ... if exit_on_failure: ... exit(1)"
check_exits(all_true, exit_on_failure) == ~all_true /\ exit_on_failure

\* What check does after the for statement, b being its outcome.
check_end(b, id, exit_on_failure) ==
    IF b.exc # "" THEN EvalOutcome(b.s, id, b.exc, 0)
    ELSE IF b.all_true
         THEN EvalOutcome(Printer_append(b.s, id, "ok", <<"All checks passed.">>),
                          id, "", 0)
    ELSE IF check_exits(b.all_true, exit_on_failure)
         THEN EvalOutcome(
                 Printer_append(
                     Printer_append(b.s, id, "warn", <<"Some assertions failed.">>),
                     id, "bad", <<"Exiting due to failed assertions...">>),
                 id, "SystemExit", 1)
    ELSE EvalOutcome(Printer_append(b.s, id, "warn", <<"Some assertions failed.">>),
                     id, "", 0)

\* POV.check(*exprs, exit_on_failure=...), interact_on_failure left unset.
check(s, exprs, exit_on_failure) ==
    check_end(check_body(Printer_print(Printer__enter__(s, "info", CallerStack),
                                       s.nextId, <<"Assertions:">>),
                         s.nextId, exprs, 1, TRUE),
              s.nextId, exit_on_failure)

Sources == {"x", "z", "v", "y", "kb()", "exit(0)"}
Exprs == {StrExpr(src) : src \in Sources} \cup {Literal(IntV(1)), Literal(IntV(0))}
ExprLists == UNION {[1 .. n -> Exprs] : n \in 0 .. MaxExprs}

\* The step of a call whose outcome is r.
EvalStep(op, exprs, exit_on_failure, r) ==
    /\ PSet(r.ps)
    /\ front' = [op |-> op, exprs |-> exprs, exit_on_failure |-> exit_on_failure,
                 lines |-> r.lines, exc |-> r.exc, status |-> r.status]
    /\ UNCHANGED <<listVars, dictVars, trackVars, attrVars, fun_dict, fun_obj, envVars,
                   nops>>

\* pov.view(...), the first call the client makes
View ==
    /\ front = NoFront
    /\ \E exprs \in ExprLists : EvalStep("view", exprs, FALSE, view(PState, exprs))

\* pov.check(...), the first call the client makes
Check ==
    /\ front = NoFront
    /\ \E exprs \in ExprLists, exit_on_failure \in BOOLEAN :
          EvalStep("check", exprs, exit_on_failure,
                   check(PState, exprs, exit_on_failure))

NextEval == View \/ Check

SpecEval == InitFront /\ [][NextEval]_vars

(***************************************************************************)
(* The ids of front-end calls (src/pov package).  POV_IDS is a list of     *)
(* ranges separated by commas; a range is written here as what             *)
(* rangestr.split('-') gives, a sequence of components, each the empty     *)
(* string or a text that int() may or may not accept.  A range int()       *)
(* refuses, or one of more than two components, makes init raise           *)
(* ValueError before the head block is written, and the import fails.  An  *)
(* operation is called as pov.op[id](...) or as pov.op(...).  With         *)
(* POV_DISABLE set the package loads the stub, which never reads POV_IDS.  *)
(***************************************************************************)
MaxRanges == 2       \* ranges in POV_IDS
MaxId == 3           \* greatest id given to a call

\* int(arg.strip()): ValueError for a text that is not a number.
int(numeral) ==
    IF numeral = "0" THEN Returned(0) ELSE IF numeral = "1" THEN Returned(1)
    ELSE IF numeral = "2" THEN Returned(2) ELSE IF numeral = "3" THEN Returned(3)
    ELSE Raised("ValueError")

\* init.get_bound: int(arg.strip()) if arg else None
get_bound(arg) ==
    IF arg = "" THEN Returned(NoBound)
    ELSE IF int(arg).exc # "" THEN int(arg)
    ELSE Returned(Bound(int(arg).val))

\* One range of POV_IDS.  bounds = tuple(map(get_bound, rangestr.split('-')))
\* raises ValueError for a component int() refuses; a single component
\* gives both bounds, two give the range, more raise ValueError.
parse_range(parts) ==
    LET bounds == [i \in 1 .. Len(parts) |-> get_bound(parts[i])]
    IN IF \E i \in 1 .. Len(parts) : bounds[i].exc # "" THEN Raised("ValueError")
       ELSE IF Len(bounds) = 1 THEN Returned([lo |-> bounds[1].val, hi |-> bounds[1].val])
       ELSE IF Len(bounds) = 2 THEN Returned([lo |-> bounds[1].val, hi |-> bounds[2].val])
       ELSE Raised("ValueError")

\* init: _global_id_range after the import, and the exception that ended
\* it.  pov_ids is the list of the ranges of POV_IDS; the split of a string
\* is never empty, and the empty list stands for the variable being unset.
\* The list is emptied before the loop and each range is appended as it is
\* parsed, so a failure leaves the ranges before it.
init_id_range(pov_ids) ==
    LET bad == {i \in 1 .. Len(pov_ids) : parse_range(pov_ids[i]).exc # ""}
        first == CHOOSE i \in bad : \A j \in bad : i <= j
        parsed == IF bad = {} THEN Len(pov_ids) ELSE first - 1
    IN IF pov_ids = <<>> THEN [exc |-> "", ranges |-> AllIds]
       ELSE [exc |-> IF bad = {} THEN "" ELSE "ValueError",
             ranges |-> [i \in 1 .. parsed |-> parse_range(pov_ids[i]).val]]

\* A faulty test, which ignores the upper bounds.
in_id_range_above(ranges, id) ==
    \E i \in DOMAIN ranges : ~(ranges[i].lo.set /\ id < ranges[i].lo.n)

\* _IdCallable.in_id_range
in_id_range(ranges, id) ==
    \E i \in DOMAIN ranges :
        /\ ~(ranges[i].lo.set /\ id < ranges[i].lo.n)
        /\ ~(ranges[i].hi.set /\ id > ranges[i].hi.n)

\* str(expr), by its characters
Chars(src) ==
    IF src = "x" THEN <<120>> ELSE IF src = "y" THEN <<121>> ELSE IF src = "z" THEN <<122>>
    ELSE IF src = "v" THEN <<118>> ELSE IF src = "kb()" THEN <<107, 98, 40, 41>>
    ELSE <<101, 120, 105, 116, 40, 48, 41>>

\* The value the caller wrote as expr.
Given(expr) == IF expr.isstr THEN StrV(Chars(expr.src)) ELSE expr.val

\* The outcome of a call that wrote nothing.
Silent(s, res) == [ps |-> s, res |-> res]

\* POV.info(text)
info(s, text) ==
    [ps |-> WithBlock(s, "info", CallerStack, <<text>>), res |-> Returned(SelfV)]

\* POV.nop(expr), without notes
nop(s, expr) ==
    LET id == s.nextId
        s1 == Printer_print(Printer__enter__(s, "info", CallerStack), id, <<"NOP wrap">>)
        s2 == Printer_print(s1, id, <<"$ " \o expr.src>>)
    IN IF ~expr.isstr
       THEN [ps |-> Printer__exit__(
                       Printer_append(s1, id, "ok",
                                      Around("$ ", ValueText(expr.val, <<>>), "")), id),
             res |-> Returned(expr.val)]
       ELSE IF eval(expr.src).exc = ""
       THEN [ps |-> Printer__exit__(
                       Printer_append(s2, id, "ok",
                           Around("=> ", ValueText(eval(expr.src).val, <<>>), "")), id),
             res |-> eval(expr.src)]
       ELSE IF except_Exception(eval(expr.src).exc)
       THEN [ps |-> Printer__exit__(
                       Printer_append(s2, id, "bad",
                           <<">< " \o exception(eval(expr.src).exc,
                                                str_exc(expr.src))>>), id),
             res |-> eval(expr.src)]
       ELSE [ps |-> Printer__exit__(s2, id), res |-> eval(expr.src)]

\* pov.info[id](text): _IdCallable.__getitem__ chooses the function or the
\* replacement that returns self; the stub returns itself to everything.
call_info(s, ranges, id, text) ==
    IF impl = "pov/_stub.py" THEN Silent(s, Returned(SelfV))
    ELSE IF in_id_range(ranges, id) THEN info(s, text)
    ELSE Silent(s, Returned(SelfV))

\* pov.view[id](expr)
call_view(s, ranges, id, expr) ==
    IF impl = "pov/_stub.py" THEN Silent(s, Returned(SelfV))
    ELSE IF in_id_range(ranges, id)
         THEN [ps |-> view(s, <<expr>>).ps,
               res |-> IF view(s, <<expr>>).exc = "" THEN Returned(SelfV)
                       ELSE Raised(view(s, <<expr>>).exc)]
    ELSE Silent(s, Returned(SelfV))

\* pov.nop[id](expr): the replacement of nop returns expr as it was given.
\* In the stub the attribute nop is a plain function, and subscripting it
\* with the id raises TypeError.
call_nop(s, ranges, id, expr) ==
    IF impl = "pov/_stub.py" THEN Silent(s, Raised("TypeError"))
    ELSE IF in_id_range(ranges, id) THEN nop(s, expr)
    ELSE Silent(s, Returned(Given(expr)))

Numerals == {"", "1", "2"}
\* Ranges init refuses: a bound that is no number, three components.
Malformed == {<<"x">>, <<"1", "x">>, <<"1", "2", "3">>, <<"", "", "">>}
RangeStrs == UNION {[1 .. n -> Numerals] : n \in 1 .. 2} \cup Malformed
PovIds == UNION {[1 .. n -> RangeStrs] : n \in 0 .. MaxRanges}
Ids == -1 .. MaxId
NoId == [given |-> FALSE, n |-> 0]       \* pov.op(...): __call__ is self[0](...)
WithId(n) == [given |-> TRUE, n |-> n]
IdChoices == {NoId} \cup {WithId(n) : n \in Ids}

\* The import that raised: no call of the client follows it.
ImportFailed(exc) == [op |-> "import", exc |-> exc]

\* import pov under POV_IDS.  pov/__init__.py runs _impl.init unless
\* POV_DISABLE chose the stub; init parses POV_IDS before it writes the
\* head block, so a failed import has written nothing.
InitIds ==
    /\ impl \in {"pov/_impl.py", "pov/_stub.py"}
    /\ ListIdle /\ DictIdle /\ TrackIdle
    /\ NoRegistry
    /\ fun_dict = <<>> /\ fun_obj = NoObj /\ heap = <<>>
    /\ \E pov_ids \in PovIds :
          IF impl = "pov/_stub.py"
          THEN global_id_range = AllIds /\ PrinterStart /\ front = NoFront
          ELSE /\ global_id_range = init_id_range(pov_ids).ranges
               /\ IF init_id_range(pov_ids).exc = ""
                  THEN PrinterStart /\ front = NoFront
                  ELSE PrinterIs(Blank) /\ front = ImportFailed(init_id_range(pov_ids).exc)
    /\ nops = 0

\* The step of a call whose outcome is r.
IdStep(op, id, expr, r) ==
    /\ PSet(r.ps)
    /\ front' = [op |-> op, id |-> id, expr |-> expr, res |-> r.res,
                 wrote |-> r.ps.out # out]
    /\ UNCHANGED <<listVars, dictVars, trackVars, attrVars, fun_dict, fun_obj, envVars,
                   nops>>

\* pov.info[id]("hello"), pov.info("hello")
Info ==
    /\ front = NoFront
    /\ \E id \in IdChoices :
          IdStep("info", id, Literal(NoneV),
                 call_info(PState, global_id_range, id.n, "hello"))

\* pov.view[id](expr), pov.view(expr)
ViewId ==
    /\ front = NoFront
    /\ \E id \in IdChoices, expr \in Exprs :
          IdStep("view", id, expr, call_view(PState, global_id_range, id.n, expr))

\* pov.nop[id](expr), pov.nop(expr)
Nop ==
    /\ front = NoFront
    /\ \E id \in IdChoices, expr \in Exprs :
          IdStep("nop", id, expr, call_nop(PState, global_id_range, id.n, expr))

NextIds == Info \/ ViewId \/ Nop

SpecIds == InitIds /\ [][NextIds]_vars

(***************************************************************************)
(* Lines whose payload is a mutable object (src/pov package).  The client  *)
(* holds a list l.  Inside a block it opened, it logs the list with        *)
(* pov.info(l), which queues the list itself, or with pov.view("l"),       *)
(* which queues its rendering, and it appends to the list.  The flush      *)
(* converts the arguments of each line with str.  appended is history:     *)
(* for each line queued for the list, the append clock of the line and     *)
(* str(l) at that moment.                                                  *)
(***************************************************************************)
MaxAppends == 2      \* appends to the list l
MaxPayloadLines == 2 \* lines logged for the list

\* The argument of a line that is the list l itself, not yet converted.
TheList == "<list l>"

\* str(arg) in dump: the conversion of the arguments of a written line, h
\* being the heap at the flush.
dump_str(rec, h) ==
    IF rec.kind = "line" /\ rec.text = TheList
    THEN [rec EXCEPT !.text = list___str__(h.l)]
    ELSE rec

\* Printer.__exit__ of block id with the heap h: what the flush writes
\* is converted as it is written.
exit_with_heap(s, id, h) ==
    [Printer__exit__(s, id) EXCEPT
        !.out = [k \in DOMAIN @ |-> IF k > Len(s.out) THEN dump_str(@[k], h) ELSE @[k]]]

\* pov.info(l): "with POVPrint.info() as printer: printer.print(*args)"
info_list(s, h) ==
    exit_with_heap(Printer_print(Printer__enter__(s, "info", <<2, 1>>), s.nextId,
                                 <<TheList>>),
                   s.nextId, h)

\* pov.view("l"): the line holds self._printvalue(val)
view_list(s, h) ==
    exit_with_heap(Printer_append(Printer__enter__(s, "ok", <<2, 1>>), s.nextId, "ok",
                                  <<"l => " \o value_of_list(h.l)>>),
                   s.nextId, h)

InitPayload ==
    /\ impl = "pov/_impl.py"
    /\ PrinterStart /\ ListIdle /\ DictIdle /\ TrackIdle
    /\ NoRegistry
    /\ fun_dict = <<>> /\ fun_obj = NoObj
    /\ global_id_range = AllIds
    /\ heap = [l |-> <<1>>]
    /\ front = [op |-> "init", appended |-> <<>>]
    /\ nops = 0

\* "with POVPrint.func() as printer:" entered by the client
OpenOuter ==
    /\ cur = None
    /\ nextId <= MaxPayloadLines + 1
    /\ PSet(Printer_print(Printer__enter__(PState, "func", <<1>>), nextId, <<"f(">>))
    /\ front' = [front EXCEPT !.op = "enter"]
    /\ UNCHANGED <<listVars, dictVars, trackVars, attrVars, fun_dict, fun_obj, envVars,
                   nops>>

\* pov.info(l)
InfoList ==
    /\ Len(front.appended) < MaxPayloadLines
    /\ PSet(info_list(PState, heap))
    /\ front' = [op |-> "info",
                 appended |-> Append(front.appended,
                                     [seq |-> clock + 1, text |-> list___str__(heap.l)])]
    /\ UNCHANGED <<listVars, dictVars, trackVars, attrVars, fun_dict, fun_obj, envVars,
                   nops>>

\* pov.view("l")
ViewList ==
    /\ Len(front.appended) < MaxPayloadLines
    /\ PSet(view_list(PState, heap))
    /\ front' = [op |-> "view",
                 appended |-> Append(front.appended,
                                     [seq |-> clock + 1,
                                      text |-> "l => " \o value_of_list(heap.l)])]
    /\ UNCHANGED <<listVars, dictVars, trackVars, attrVars, fun_dict, fun_obj, envVars,
                   nops>>

\* l.append(n)
AppendToList ==
    /\ nops < MaxAppends
    /\ \E n \in {8, 9} : heap' = [heap EXCEPT !.l = Append(@, n)]
    /\ nops' = nops + 1
    /\ front' = [front EXCEPT !.op = "append"]
    /\ UNCHANGED <<printerVars, listVars, dictVars, trackVars, attrVars, fun_dict,
                   fun_obj, global_id_range>>

\* The block of the client ends.
CloseOuter ==
    /\ cur # None
    /\ PSet(exit_with_heap(PState, cur, heap))
    /\ front' = [front EXCEPT !.op = "exit"]
    /\ UNCHANGED <<listVars, dictVars, trackVars, attrVars, fun_dict, fun_obj, envVars,
                   nops>>

NextPayload == OpenOuter \/ InfoList \/ ViewList \/ AppendToList \/ CloseOuter

SpecPayload == InitPayload /\ [][NextPayload]_vars

(***************************************************************************)
(* Blocks opened and closed by well-nested with statements, the bodies of  *)
(* which may raise, writing to a stream whose write may fail (src/pov      *)
(* package).  open is history: the blocks whose with statement has been    *)
(* entered and not left, outermost first.  heap holds the state of the     *)
(* stream _global_file.                                                    *)
(***************************************************************************)
MaxNestBlocks == 3   \* blocks opened in one behaviour
MaxNestLines == 2    \* lines appended in one behaviour

\* _global_file.write raises: the first write of a flush with something to
\* write fails.
flush_raises(s, id, file_ok) ==
    /\ IsOutermost(s.blocks[id])
    /\ ~file_ok
    /\ FlushEntries(StackedLines(id, s.blocks[id]), s.previous_stack).written # <<>>

\* Printer.__exit__ of block id writing to the stream: when the write
\* raises, the exception leaves __exit__ at that statement, nothing is
\* written and the statements after the loop are not run.
exit_writing(s, id, file_ok) ==
    IF flush_raises(s, id, file_ok) THEN s ELSE Printer__exit__(s, id)

InitClose ==
    /\ impl = "pov/_impl.py"
    /\ PrinterStart /\ ListIdle /\ DictIdle /\ TrackIdle
    /\ NoRegistry
    /\ fun_dict = <<>> /\ fun_obj = NoObj
    /\ global_id_range = AllIds
    /\ heap = [file_ok |-> TRUE]
    /\ front = [op |-> "init", blk |-> None, parent |-> None, raised |-> FALSE,
                failed |-> FALSE, open |-> <<>>]
    /\ nops = 0

\* "with POVPrint.<style>() as printer:" is entered
OpenBlock ==
    /\ nextId <= MaxNestBlocks
    /\ \E style \in {"info", "ok"}, stk \in {<<1>>, <<2, 1>>} :
          PSet(Printer__enter__(PState, style, stk))
    /\ front' = [op |-> "enter", blk |-> nextId, parent |-> cur, raised |-> FALSE,
                 failed |-> FALSE, open |-> Append(front.open, nextId)]
    /\ UNCHANGED <<listVars, dictVars, trackVars, attrVars, fun_dict, fun_obj, envVars,
                   nops>>

\* printer.print(text) in the body of the innermost with statement
PrintIn ==
    /\ front.open # <<>>
    /\ clock < MaxNestLines
    /\ PSet(Printer_print(PState, front.open[Len(front.open)], <<"text">>))
    /\ front' = [front EXCEPT !.op = "print"]
    /\ UNCHANGED <<listVars, dictVars, trackVars, attrVars, fun_dict, fun_obj, envVars,
                   nops>>

\* The innermost with statement is left, its body having returned or
\* raised: __exit__(exc_type, value, tb) does not look at its arguments.
CloseBlock ==
    /\ front.open # <<>>
    /\ \E raised \in BOOLEAN :
          LET id == front.open[Len(front.open)]
          IN /\ PSet(exit_writing(PState, id, heap.file_ok))
             /\ front' = [op |-> "exit", blk |-> id, parent |-> blocks[id].parent,
                          raised |-> raised,
                          failed |-> flush_raises(PState, id, heap.file_ok),
                          open |-> SubSeq(front.open, 1, Len(front.open) - 1)]
    /\ UNCHANGED <<listVars, dictVars, trackVars, attrVars, fun_dict, fun_obj, envVars,
                   nops>>

\* pov.print_to(file), with a stream whose write raises or one that works
PrintTo ==
    /\ \E ok \in BOOLEAN : heap' = [file_ok |-> ok]
    /\ front' = [front EXCEPT !.op = "print_to"]
    /\ UNCHANGED <<printerVars, listVars, dictVars, trackVars, attrVars, fun_dict,
                   fun_obj, global_id_range, nops>>

NextClose == OpenBlock \/ PrintIn \/ CloseBlock \/ PrintTo

\* The stream may be replaced by one whose write raises.
SpecClose == InitClose /\ [][NextClose]_vars

(***************************************************************************)
(* History read off the state, for the properties of the buffer.           *)
(***************************************************************************)
\* The outermost block above block c.
RECURSIVE RootOf(_, _)
RootOf(bs, c) == IF bs[c].parent = None THEN c ELSE RootOf(bs, bs[c].parent)

\* The written records that are queued lines (not stack frames or markers).
IsLine(r) == r.kind = "line"

\* C5: no trace text is written while a block is open.  A step that leaves
\* a block open writes nothing, and while a block is open nothing of the
\* outermost open block or of the blocks opened after it is in the stream:
\* text is written only by the step that closes the outermost block.
C5_NoWriteWhileOpen ==
    [][ /\ (out' # out => (cur # None /\ cur' = None))
        /\ (cur' # None =>
               \A i \in 1..Len(out') : out'[i].blk < RootOf(blocks', cur')) ]_vars

\* C5 witness: a nested block is open and holds a queued line, under a parent
\* that holds one too, after an earlier flush of the client has written
\* text behind the head block of the import.
C5_Witness ==
    /\ cur # None
    /\ blocks[cur].parent # None
    /\ Len(blocks[cur].lines) > 0
    /\ Len(blocks[blocks[cur].parent].lines) > 0
    /\ \E i, j \in 1..Len(out) : i < j /\ out[i].cat = "head" /\ out[j].blk >= 1

\* C6: the blocks of a flush are written in the order they were opened:
\* block ids are given in opening order, and the stream never holds a
\* record of a later block before a record of an earlier one.
C6_OpeningOrder ==
    \A i, j \in 1..Len(out) : i < j => out[i].blk <= out[j].blk

\* C6 witness: one flush wrote a parent, its child, the child's child and
\* then the child's next sibling.
C6_Witness ==
    \E a, b, c, d \in 1..Len(out) :
        /\ a < b /\ b < c /\ c < d
        /\ IsLine(out[a]) /\ IsLine(out[b]) /\ IsLine(out[c]) /\ IsLine(out[d])
        /\ out[a].up = None
        /\ out[b].up = out[a].blk
        /\ out[c].up = out[b].blk
        /\ out[d].up = out[a].blk
        /\ out[d].blk # out[b].blk

\* Block p is the parent of block c, read off two written records.
ParentChild(p, c) == IsLine(p) /\ IsLine(c) /\ c.up = p.blk

\* C7 as claimed: a line of a parent is written before a line of its child
\* only if it was appended before the child's line.
C7_Claimed_InsertionOrder ==
    \A i, j \in 1..Len(out) :
        (i < j /\ ParentChild(out[i], out[j])) => out[i].seq < out[j].seq

\* C7 as amended: a flush writes each block whole, in opening order: every
\* line of a parent is written before every line of its child, whenever it
\* was appended, and the lines of one block are written in the order they
\* were appended.
C7_BlockByBlock ==
    \A i, j \in {k \in 1..Len(out) : IsLine(out[k])} :
        /\ ParentChild(out[i], out[j]) => i < j
        /\ (out[i].blk = out[j].blk /\ out[i].seq < out[j].seq) => i < j

\* C7 witness: a parent's line that was appended after its child's line
\* (the child had closed) is in the stream, before the child's line.
C7_Witness ==
    \E i, j \in 1..Len(out) :
        /\ ParentChild(out[i], out[j])
        /\ out[i].seq > out[j].seq
        /\ i < j

\* C1: every mutating operation of the mapping proxy returns what the same
\* operation on a native dict with equal contents returns (or raises the
\* same error), and leaves equal contents.
C1_DictProxyTransparent ==
    /\ dictres.proxy = dictres.native
    /\ povdict = natdict

\* C2: every mutating operation of the sequence proxy returns what the same
\* operation on a native list with equal contents returns (or raises the
\* same error), and leaves equal contents.  The elements are integers, whose
\* rendering in the trace line never raises.
C2_ListProxyTransparent ==
    /\ listres.proxy = listres.native
    /\ povlist = natlist

\* C2 witness: the proxy and the native list have been through two
\* operations, the last of which raised, and hold elements.
C2_Witness ==
    /\ nops = 2
    /\ listres.op = "pop"
    /\ listres.native.exc = "IndexError"
    /\ Len(natlist) > 0

\* A second C2 case, reached as well: an in-place operation returned the
\* list itself and changed it.
C2_SelfReturned ==
    /\ listres.op = "__imul__" /\ listres.native.val = SelfV /\ Len(natlist) = 4

(***************************************************************************)
(* History read off the state, for the properties of tracked calls.        *)
(***************************************************************************)
\* The lines of block b in the stream whose category is in cats, counted as
\* they were appended: a line whose text takes several physical lines is
\* one line.
LinesOf(b, cats) ==
    Cardinality({out[i].seq : i \in {j \in 1..Len(out) :
        IsLine(out[j]) /\ out[j].blk = b /\ out[j].cat \in cats}})

\* The invocations of the wrapper that have ended, and whose block is in
\* the stream.
Ended(c) == c.wrap.kind # "none"
Flushed(c) == \E i \in 1..Len(out) : out[i].blk = c.blk

\* Invocation number i opened one block, and no other: block ids count the
\* blocks opened, and the invocations began in the order of calls.
OneBlockEach ==
    /\ \A i \in 1..Len(calls) : calls[i].blk = i
    /\ nextId = Len(calls) + 1

\* The name line and one line per positional and keyword argument.
ArgumentLines(c) == LinesOf(c.blk, {"func"}) = 1 + c.nargs + c.nkw

\* C3 as claimed: whenever the target raised, the block holds the argument
\* lines and one exception line, and the wrapper raised the same instance.
C3_Claimed_ExceptionLine ==
    \A i \in 1..Len(calls) :
        (Ended(calls[i]) /\ calls[i].orig.kind = "exc") =>
            /\ calls[i].wrap = calls[i].orig
            /\ Flushed(calls[i]) =>
                  /\ ArgumentLines(calls[i])
                  /\ LinesOf(calls[i].blk, {"bad"}) = 1

\* C3 as amended: whenever the target raised, the wrapper raised the same
\* instance and the block holds the argument lines; it holds one exception
\* line when the exception is an Exception, and no exception line when it
\* is not (KeyboardInterrupt); it never holds a result line.
C3_ExceptionPropagates ==
    /\ OneBlockEach
    /\ \A i \in 1..Len(calls) :
        (Ended(calls[i]) /\ calls[i].orig.kind = "exc") =>
            /\ calls[i].wrap = calls[i].orig
            /\ Flushed(calls[i]) =>
                  /\ ArgumentLines(calls[i])
                  /\ LinesOf(calls[i].blk, {"bad"}) =
                         (IF IsException(calls[i].orig.cls) THEN 1 ELSE 0)
                  /\ LinesOf(calls[i].blk, {"ok"}) = 0

\* C3 witness: a KeyError raised under two nested tracked calls has reached
\* the client, the second exception instance of the behaviour, and both
\* blocks are in the stream with their exception lines.
C3_Witness ==
    /\ frames = <<>>
    /\ ret.kind = "exc" /\ ret.cls = "KeyError" /\ ret.id = 2
    /\ Len(calls) >= 2
    /\ calls[Len(calls) - 1].target = "relay"
    /\ calls[Len(calls)].orig = ret
    /\ calls[Len(calls) - 1].wrap = ret
    /\ LinesOf(calls[Len(calls)].blk, {"bad"}) = 1
    /\ LinesOf(calls[Len(calls) - 1].blk, {"bad"}) = 1

\* The case that refutes C3 as claimed, reached as well: a
\* KeyboardInterrupt went through the wrapper, whose block is in the
\* stream without an exception line.
C3_NoExceptionLine ==
    /\ frames = <<>>
    /\ ret.kind = "exc" /\ ret.cls = "KeyboardInterrupt"
    /\ Flushed(calls[Len(calls)])
    /\ LinesOf(calls[Len(calls)].blk, {"bad"}) = 0

\* C4: every invocation of a tracked function that returned, a recursive
\* one and one answered from the memo included, opened exactly one block,
\* which holds one line per positional and keyword argument (after the
\* name line) and exactly one result line, and the wrapper returned the
\* value the target returned.  The arguments and results are integers,
\* whose rendering never raises (the result is rendered inside the try of
\* the wrapper).
C4_OneBlockPerReturn ==
    /\ OneBlockEach
    /\ \A i \in 1..Len(calls) :
        (Ended(calls[i]) /\ calls[i].orig.kind = "val") =>
            /\ calls[i].wrap = calls[i].orig
            /\ Flushed(calls[i]) =>
                  /\ ArgumentLines(calls[i])
                  /\ LinesOf(calls[i].blk, {"ok"}) = 1
                  /\ LinesOf(calls[i].blk, {"bad"}) = 0

\* C4 witness: binom(3, 1) took five invocations, the recursive ones with
\* mem as third argument, and stored 3 in mem; then binom(3, k=1) was
\* answered from mem by one invocation, whose block is in the stream.
C4_Witness ==
    /\ frames = <<>>
    /\ nops = 2
    /\ Len(calls) = 6
    /\ calls[1].nargs = 2 /\ calls[1].nkw = 0
    /\ calls[2].nargs = 3
    /\ calls[6].nargs = 1 /\ calls[6].nkw = 1
    /\ calls[6].wrap = Value(IntV(3))
    /\ Has(mem, <<3, 1>>)
    /\ Flushed(calls[6])

(***************************************************************************)
(* History read off the state, for the properties of attribute tracking.   *)
(***************************************************************************)
\* The attributes registered for target t, "all" included.
Watched(t, attr) ==
    attr \in Registered(attr_dict, t) \/ All \in Registered(attr_dict, t)

\* The last operation was an assignment.
Assigned == attrres.op = "setattr"

\* C8: once "all" is registered for the class, every assignment of any
\* attribute on an instance of the class writes exactly one trace line,
\* whatever kind of value is assigned.
C8_OneLinePerAssignment ==
    (Assigned /\ All \in Registered(attr_dict, Class)) => attrres.lines = 1

\* C9: an assignment to an attribute whose name is neither in the set
\* registered for the class nor in the set registered for the instance
\* assigned to, with "all" registered for no target, opens no block, writes
\* no trace line and stores exactly the assigned value.
C9_UnwatchedUntouched ==
    ( /\ Assigned
      /\ attrres.attr \notin Registered(attr_dict, Class)
      /\ attrres.attr \notin Registered(attr_dict, attrres.obj)
      /\ \A t \in {Class} \cup Instances : All \notin Registered(attr_dict, t) )
    =>  /\ attrres.blocks = 0
        /\ attrres.lines = 0
        /\ store[attrres.obj][attrres.attr] = attrres.value

\* C10: when an attribute is registered for an instance x only, and not for
\* the class, an assignment of that attribute on a different instance of
\* the class writes no trace line.
C10_OtherInstanceUntraced ==
    \A x \in Instances :
        ( /\ Assigned
          /\ attrres.obj # x
          /\ Watched(x, attrres.attr)
          /\ ~Watched(Class, attrres.attr)
          /\ ~Watched(attrres.obj, attrres.attr) )
        => attrres.lines = 0

\* C11: registrations are additive: an assignment on an instance is traced
\* whenever the attribute (or "all") is registered for the class or for
\* that instance, whichever call of track_attr registered it.
C11_RegistrationsAdditive ==
    (Assigned /\ (Watched(Class, attrres.attr) \/ Watched(attrres.obj, attrres.attr)))
        => attrres.lines >= 1

\* C12: a traced assignment of a value that is neither a mapping nor a
\* sequence stores that very value in the attribute.
C12_ValueStoredAsIs ==
    (Assigned /\ attrres.lines >= 1 /\ attrres.value.t \notin {"dict", "list"})
        => store[attrres.obj][attrres.attr] = attrres.value

(***************************************************************************)
(* History read off the state, for the properties of tracked containers.   *)
(***************************************************************************)
IsProxy(p) == p.t \in {"_POVObj", "POVList", "POVDict"}

\* The last step operated on a container proxy read from x.a.
OnProxy(kind) ==
    /\ attrres.op = kind
    /\ IsProxy(attrres.before)
    /\ AsNative(attrres.before).t \in Containers

\* C13: once a tracked attribute has been assigned a dict or a list, it
\* holds the proxy until it is assigned again: after a read of the
\* container or a mutation made through the attribute, the attribute still
\* holds a proxy of the same kind, and every mutation made through it, the
\* second and later ones as well as the first, writes at least one trace
\* line.
C13_SubstitutionDurable ==
    (OnProxy("mutate") \/ OnProxy("read")) =>
        /\ IsProxy(store[Holder][Held])
        /\ store[Holder][Held].t = attrres.before.t
        /\ attrres.op = "mutate" => attrres.lines >= 1

\* What x.a is bound to after the native x.a += y or x.a *= n: the list
\* itself, updated, or the new number.
NativeRebound == Rebound(attrres.native)

\* C14: += and *= applied to a proxied value return what the native
\* operation returns, so that after x.a += y or x.a *= n the attribute is
\* bound to the updated container or number, and not to None.
C14_InPlaceKeepsBinding ==
    (attrres.op = "inplace" /\ IsProxy(attrres.before)
         /\ attrres.native.res.exc = "") =>
        /\ attrres.res = attrres.native.res
        /\ AsNative(store[Holder][Held]) = NativeRebound
        /\ AsNative(store[Holder][Held]) # NoneV

\* Reads made by subscript or by a built-in: x.a[k], len(x.a), iter(x.a).
Subscripted(op) == op.name \in {"__getitem__", "__len__", "__iter__"}

\* get of a key the dict does not hold.
Missed(op, c) == op.name = "get" /\ c.t = "dict" /\ ~Has(c.v, op.key)

\* C15 as claimed: a non-mutating read on a container proxy (lookup, get
\* of a present or absent key, iteration, items, keys, values, length)
\* writes no trace line.
C15_Claimed_ReadsSilent ==
    OnProxy("read") => attrres.lines = 0

\* C15: a read by subscript, length or iteration writes no trace line and
\* leaves the container as it was.  get of an absent key writes one line;
\* in src/pov.py get of a present key and items, keys and values write
\* none, and the proxy of the package writes one line for every method
\* called through it.
C15_ReadsTraced ==
    OnProxy("read") =>
        /\ AsNative(store[Holder][Held]) = AsNative(attrres.before)
        /\ attrres.lines =
              IF Subscripted(attrres.call) THEN 0
              ELSE IF impl = "pov.py"
                   THEN (IF Missed(attrres.call, AsNative(attrres.before)) THEN 1 ELSE 0)
                   ELSE 1

\* get of an absent key on the POVDict of src/pov.py, which wrote its line
\* and returned the default.
C15_Witness ==
    /\ OnProxy("read")
    /\ impl = "pov.py"
    /\ Missed(attrres.call, AsNative(attrres.before))
    /\ attrres.lines = 1
    /\ attrres.res = Returned(NoneV)

(***************************************************************************)
(* History read off the stream, for the properties of the stack diff.      *)
(* The records of one block are written together, so the stream is a       *)
(* sequence of rendered blocks; the stack remembered when a block is       *)
(* rendered is the stack of the block rendered before it, and the empty    *)
(* stack for the first block of the process.                               *)
(***************************************************************************)
\* The positions at which the rendering of a block starts.
Starts == {k \in 1..Len(out) : k = 1 \/ out[k - 1].blk # out[k].blk}

\* The previously rendered stack when the block starting at k was rendered.
PrevStackAt(k) == IF k = 1 THEN <<>> ELSE out[k - 1].stack

\* The records of the block starting at k that are of the given kind.
Kinds(k, kind) ==
    {m \in 1..Len(out) : out[m].blk = out[k].blk /\ out[m].kind = kind}

\* The number of leading frames two stacks share, outermost frame first.
Shared(stack, prev) ==
    CHOOSE i \in 0..Min(Len(stack), Len(prev)) :
        /\ \A j \in 1..i : stack[j] = prev[j]
        /\ i < Min(Len(stack), Len(prev)) => stack[i + 1] # prev[i + 1]

\* The number of frames the block starting at k shares with the stack
\* rendered before it.
SharedAt(k) == Shared(out[k].stack, PrevStackAt(k))

\* The index of a frame in a stack (no call site has a frame twice).
IndexIn(stack, f) == CHOOSE j \in 1..Len(stack) : stack[j] = f

\* C16 as claimed: every frame rendered for a flushed block lies at or
\* after the first index at which its stack differs from the previously
\* rendered stack; no frame of the common prefix is rendered again.
C16_Claimed_NoPrefixFrame ==
    \A k \in Starts : \A m \in Kinds(k, "frame") \cup Kinds(k, "up") :
        IndexIn(out[m].stack, out[m].frame) > SharedAt(k)

\* C16 as amended: every frame line of a flushed block lies at or after
\* the first index at which its stack differs from the previously rendered
\* stack.  One frame of the common prefix is rendered again: the last
\* shared frame, inside the "<up N>" marker line, which is written at most
\* once for a block.
C16_FramesFromDivergence ==
    \A k \in Starts :
        /\ \A m \in Kinds(k, "frame") :
               IndexIn(out[m].stack, out[m].frame) > SharedAt(k)
        /\ \A m \in Kinds(k, "up") :
               /\ SharedAt(k) > 0
               /\ out[m].frame = out[m].stack[SharedAt(k)]
        /\ Cardinality(Kinds(k, "up")) <= 1

\* A block whose stack leaves the previous one after a shared frame: the
\* marker line shows the shared frame, a frame line the new one.
C16_Witness ==
    \E k \in Starts :
        /\ SharedAt(k) = 1
        /\ Len(out[k].stack) = 2
        /\ Len(PrevStackAt(k)) = 2
        /\ Kinds(k, "up") # {}
        /\ Kinds(k, "frame") # {}

\* The stack of the block starting at k is a non-empty strict prefix of
\* the stack rendered before it.
Truncated(k) ==
    /\ Len(out[k].stack) > 0
    /\ Len(out[k].stack) < Len(PrevStackAt(k))
    /\ \A j \in 1..Len(out[k].stack) : out[k].stack[j] = PrevStackAt(k)[j]

\* C17: a flushed non-empty block whose stack is a non-empty strict prefix
\* of the previously rendered stack gets exactly one "<up N>" marker line,
\* N being the number of frames by which the previous stack is longer, and
\* no frame line (and no "<new stack>" marker).
C17_TruncationMarker ==
    \A k \in Starts :
        Truncated(k) =>
            /\ Cardinality(Kinds(k, "up")) = 1
            /\ \A m \in Kinds(k, "up") :
                   out[m].n = Len(PrevStackAt(k)) - Len(out[k].stack)
            /\ Kinds(k, "frame") = {}
            /\ Kinds(k, "new") = {}

\* A block rendered one frame up from the block before it.
C17_Witness ==
    \E k \in Starts :
        /\ Truncated(k)
        /\ out[k].kind = "up"
        /\ out[k].n = 1
        /\ Kinds(k, "line") # {}

\* C18: a "<new stack>" marker is written for a flushed non-empty block
\* exactly when its stack shares no leading frame with the previously
\* rendered stack (the first flush of the process included); the marker is
\* then the first record of the block and is followed by one frame line
\* for every frame of the stack, outermost first.
C18_NewStackMarker ==
    \A k \in Starts :
        /\ (Kinds(k, "new") # {}) <=> (SharedAt(k) = 0)
        /\ SharedAt(k) = 0 =>
              /\ Kinds(k, "new") = {k}
              /\ Kinds(k, "frame") = (k + 1)..(k + Len(out[k].stack))
              /\ \A j \in 1..Len(out[k].stack) :
                     out[k + j].frame = out[k].stack[j]

\* A block, not the first of the process, whose two frames are both new:
\* the marker, then the two frames from the outermost.
C18_Witness ==
    \E k \in Starts :
        /\ k > 1
        /\ Len(PrevStackAt(k)) > 0
        /\ Len(out[k].stack) = 2
        /\ SharedAt(k) = 0
        /\ out[k].kind = "new"
        /\ out[k + 1].kind = "frame" /\ out[k + 2].kind = "frame"

\* The block starting at k was rendered directly after a block that
\* captured an equal stack.
Repeated(k) == k > 1 /\ out[k].stack = PrevStackAt(k)

\* The start of the block rendered before the block starting at k.
StartBefore(k) == CHOOSE h \in Starts : out[h].blk = out[k - 1].blk

\* C19: of two non-empty blocks flushed one directly after the other with
\* equal stacks, the first renders the frames new to it (those from the
\* index at which it left the stack before it) and the second renders no
\* frame line.
C19_RepeatRendersNoFrame ==
    \A k \in Starts :
        Repeated(k) =>
            /\ Kinds(k, "frame") = {}
            /\ Kinds(k, "up") = {}
            /\ {out[m].frame : m \in Kinds(StartBefore(k), "frame")}
                 = {out[k].stack[j] :
                      j \in (SharedAt(StartBefore(k)) + 1)..Len(out[k].stack)}

\* Two blocks rendered one after the other from the same call site, two
\* frames deep: the first rendered both frames, the second only its line.
C19_Witness ==
    \E k \in Starts :
        /\ Repeated(k)
        /\ Len(out[k].stack) = 2
        /\ Cardinality(Kinds(StartBefore(k), "frame")) = 2
        /\ out[k].kind = "line"

\* The entries of a flush that hold a line.
Kept(entries) == SelectSeq(entries, LAMBDA e : Len(e.lines) > 0)

\* The records of block b among those a step wrote.
WrittenFor(b, before, after) ==
    {m \in (Len(before) + 1)..Len(after) : after[m].blk = b}

\* C20: a block that holds no line when it is flushed is dropped.  The
\* flush writes no record for it and leaves the stream and the remembered
\* stack exactly as the flush of the same blocks without it does; every
\* block of the flush that holds lines, the ones nested in a dropped block
\* included, has all its lines written.
C20_EmptyBlockDropped ==
    [][ (cur # None /\ cur' = None) =>
          LET entries == StackedLines(cur, blocks[cur])
              f == FlushEntries(Kept(entries), previous_stack)
          IN /\ out' = out \o f.written
             /\ previous_stack' = f.prev
             /\ \A k \in 1..Len(entries) :
                    LET w == WrittenFor(entries[k].blk, out, out')
                    IN IF Len(entries[k].lines) = 0 THEN w = {}
                       ELSE Cardinality({m \in w : IsLine(out'[m])})
                                = Len(entries[k].lines) ]_vars

\* A block was dropped and a block nested in it was written, relative to
\* the stack of the block rendered before the dropped one.
C20_Witness ==
    \E k \in Starts :
        /\ k > 1
        /\ out[k].up # None
        /\ \A m \in 1..Len(out) : out[m].blk # out[k].up
        /\ out[k - 1].blk < out[k].up
        /\ previous_stack = out[Len(out)].stack

(***************************************************************************)
(* History read off the state, for the properties of the front end.        *)
(***************************************************************************)
\* The targets a method name was registered for.
TrackedFor(attr) == IF attr \in DOMAIN fun_dict THEN fun_dict[attr].targets ELSE {}

\* C21: after any sequence of track_memfun registrations, the lookup of a
\* method name on an instance gives the traced replacement only when the
\* name was registered for the class or for that very instance; every
\* other instance, one that compares equal to a tracked one included, gets
\* the original method.
C21_ReplacementOnlyForTarget ==
    (front.op = "lookup" /\ front.result = "traced") =>
        (Class \in TrackedFor(front.attr) \/ front.self \in TrackedFor(front.attr))

\* C22: for a static method of a tracked class only the implicit first
\* argument is stripped: the original runs with exactly the arguments the
\* caller wrote, through an instance and through the class alike.
C22_StaticReceivesCallerArgs ==
    front.op = "s" =>
        /\ front.invoked
        /\ front.res.exc = ""
        /\ front.passed = front.args

\* C23: for every finite depth limit d >= 0 and every value, singleton-nested
\* and cyclic containers included, a rendering returns, has entered at most
\* d levels of nesting below the value, and shows what lies d levels below
\* the value as a constant or as an opaque placeholder.
C23_DescendsAtMostLimit ==
    (front.op = "value" /\ front.depthlimit >= 0)
        => /\ front.out.exc = ""
           /\ Levels(front.out) <= front.depthlimit
           /\ Exhausted(front.out, front.depthlimit)

\* The expressions of the call whose evaluation raises, and those whose
\* exception no "except Exception" catches.
Raises(e) == e.isstr /\ eval(e.src).exc # ""
Escapes(e) == Raises(e) /\ eval(e.src).exc \in NotExceptions
\* The lines the block of the call held for its expressions.
ExprLines ==
    IF front.op = "view"
    THEN IF impl = "pov.py" THEN Tail(front.lines) ELSE front.lines
    ELSE SubSeq(front.lines, 2, Len(front.lines) - 1)
\* The expressions in front of the first one whose exception escapes.
Reached ==
    {i \in DOMAIN front.exprs : \A j \in 1 .. i - 1 : ~Escapes(front.exprs[j])}

\* C24 as claimed: view returns normally whatever the expressions raise, and
\* its block holds one line per expression, a failure line for each
\* expression whose evaluation raises.
C24_Claimed_ViewNeverPropagates ==
    front.op = "view"
        => /\ front.exc = ""
           /\ Len(ExprLines) = Len(front.exprs)
           /\ \A i \in DOMAIN front.exprs :
                 Raises(front.exprs[i]) => ExprLines[i].cat = "bad"

\* C24: view never propagates a failure that derives from Exception: each
\* such expression gets one failure line and the expressions after it are
\* still evaluated and shown.  An exception that does not derive from
\* Exception leaves view, after the lines of the expressions in front of it.
\* The values of the expressions are integers, whose rendering never raises.
C24_ViewCatchesExceptions ==
    front.op = "view"
        => /\ front.exc = "" <=> \A i \in DOMAIN front.exprs : ~Escapes(front.exprs[i])
           /\ Len(ExprLines) = Cardinality({i \in Reached : ~Escapes(front.exprs[i])})
           /\ \A i \in 1 .. Len(ExprLines) :
                 ExprLines[i].cat = IF Raises(front.exprs[i]) THEN "bad" ELSE "ok"

C24_Witness ==
    /\ front.op = "view" /\ front.exc = ""
    /\ Len(front.exprs) = 2
    /\ Raises(front.exprs[1]) /\ ~Raises(front.exprs[2])
    /\ ExprLines[1].cat = "bad" /\ ExprLines[2].cat = "ok"

\* An expression that is a failed assertion: falsy, or raising.
Fails(e) ==
    IF e.isstr THEN Raises(e) \/ ~Truthy(eval(e.src).val) ELSE ~Truthy(e.val)
SomeFails == \E i \in DOMAIN front.exprs : Fails(front.exprs[i])
SomeEscapes == \E i \in DOMAIN front.exprs : Escapes(front.exprs[i])
ExitsNonZero == front.exc = "SystemExit" /\ front.status # 0

\* C25 as claimed: check ends the process with a non-zero status exactly
\* when exit_on_failure is set and some expression is falsy or raises, it
\* returns normally otherwise, and an expression that raises is a failed
\* assertion whose exception does not leave check.
C25_Claimed_CheckExitsIffFailed ==
    front.op = "check"
        => /\ ExitsNonZero <=> (front.exit_on_failure /\ SomeFails)
           /\ ~(front.exit_on_failure /\ SomeFails) => front.exc = ""
           /\ \A i \in DOMAIN front.exprs :
                 Raises(front.exprs[i]) => front.exc \in {"", "SystemExit"}

\* C25: when no expression raises an exception that does not derive from
\* Exception, check ends the process with status 1 exactly when
\* exit_on_failure is set and some expression is falsy or raises, returns
\* normally otherwise, and every expression that raises has a failure line.
\* An exception that does not derive from Exception leaves check as it is.
\* The values of the expressions are integers, whose rendering, which check
\* does inside its try, never raises.
C25_CheckExitsIffFailed ==
    front.op = "check"
        => IF SomeEscapes
           THEN /\ front.exc \in NotExceptions
                /\ front.status = 0
                /\ \E i \in Reached : /\ Escapes(front.exprs[i])
                                      /\ front.exc = eval(front.exprs[i].src).exc
           ELSE /\ ExitsNonZero <=> (front.exit_on_failure /\ SomeFails)
                /\ ~(front.exit_on_failure /\ SomeFails) => front.exc = ""
                /\ \A i \in DOMAIN front.exprs :
                      Raises(front.exprs[i]) => ExprLines[i].cat = "bad"

C25_Witness ==
    /\ front.op = "check" /\ front.exit_on_failure
    /\ Len(front.exprs) = 2
    /\ ~Fails(front.exprs[1])
    /\ Raises(front.exprs[2]) /\ ~Escapes(front.exprs[2])
    /\ ExitsNonZero

\* The id a call counts as, and whether it lies within a range, bounds
\* inclusive, an omitted bound unbounded.
CountsAs == IF front.id.given THEN front.id.n ELSE 0
Within(n, r) == (r.lo.set => r.lo.n <= n) /\ (r.hi.set => n <= r.hi.n)

\* C26: a front-end operation writes trace output only if the id it counts
\* as (0 when none is given) lies within one of the configured ranges, and
\* with no range configured info and nop, which always print, write for
\* every id.
C26_WritesOnlyInRange ==
    front.op \in {"info", "view", "nop"}
        => /\ front.wrote =>
                \E i \in DOMAIN global_id_range : Within(CountsAs, global_id_range[i])
           /\ (global_id_range = AllIds /\ impl = "pov/_impl.py"
                 /\ front.op \in {"info", "nop"}) => front.wrote

C26_Witness ==
    /\ front.op = "info" /\ front.id = WithId(2) /\ front.wrote
    /\ global_id_range = <<[lo |-> Bound(1), hi |-> Bound(2)]>>

\* A call without id under ranges that hold 0 and not 1.
C26_WitnessNoId ==
    /\ front.op = "view" /\ ~front.id.given /\ front.wrote
    /\ global_id_range = <<[lo |-> NoBound, hi |-> Bound(1)]>>

\* What expr evaluates to in the frame of the caller, where a local
\* shadows a global of the same name.
Ambient(src) ==
    IF src \in DOMAIN f_locals THEN Returned(IntV(f_locals[src]))
    ELSE IF src \in DOMAIN f_globals THEN Returned(IntV(f_globals[src]))
    ELSE eval(src)

\* C27: nop returns the value of expr in the ambient context, or expr
\* itself when it is not a string, whether or not output is enabled for
\* the id and whichever implementation is loaded.
C27_NopReturnsValue ==
    front.op = "nop"
        => IF front.expr.isstr
           THEN front.res = Ambient(front.expr.src)
           ELSE front.res = Returned(front.expr.val)

\* C28: a line is immutable once appended: what the flush writes for a
\* line logged for the list is the text the list had when the line was
\* appended, whatever was appended to the list since.
C28_LineImmutable ==
    \A k \in DOMAIN out : \A a \in DOMAIN front.appended :
        (out[k].kind = "line" /\ out[k].seq = front.appended[a].seq)
            => out[k].text = front.appended[a].text

\* C29: every close of a block sets the current-block pointer to the parent
\* of that block, whether its body returned or raised; so when every with
\* statement has been left no block is current, and the block opened then
\* is an outermost one.
C29_CloseResetsPointer ==
    /\ front.op = "exit" => cur = front.parent
    /\ front.open = <<>> => cur = None
    /\ (front.op = "enter" /\ Len(front.open) = 1) => IsOutermost(blocks[cur])

\* C30: when the write of a flush raises, the close of the outermost block
\* still resets the current-block pointer.
C30_FailedFlushResetsPointer ==
    (front.op = "exit" /\ front.failed) => cur = front.parent

=============================================================================
